---- MODULE Spec2Model ----
(***************************************************************************)
(* Model of the qlsv-flash student management application: the account     *)
(* store, the login guard (failed-attempt / lockout state machine) and the *)
(* roster import.                                                          *)
(*                                                                         *)
(* Text values are sequences of one-character strings, so that strip(),    *)
(* lower() and re.fullmatch() are computed character by character.         *)
(* A NULL column of type text is the empty sequence (the code stores       *)
(* `x or None`, so an empty string is never stored); a NULL timestamp is   *)
(* NoTime.                                                                 *)
(***************************************************************************)
EXTENDS Integers, Sequences, FiniteSets, TLC

VARIABLES
    now,           \* the wall clock, datetime.utcnow(), in seconds
    db,            \* the committed students table: id -> row
    current_user,  \* the client's session: the id flask-login holds, or Anonymous
    resp,          \* the response to the last request
    attempts,      \* per account: the last wrong-password attempts app.py login handled
    reqs,          \* the login requests in flight (concurrent workers)
    served,        \* how many login requests the workers, or uploads the imports, have taken
    ops,           \* how many account and grade forms have been handled
    grades,        \* the committed grades table: id -> row
    imp            \* the import request in progress

vars == <<now, db, current_user, resp, attempts, reqs, served, ops, grades, imp>>

----------------------------------------------------------------------------
(* Bounds of the model *)

MaxTime == 100
TickStep == 20

(* Program constants *)

LOCK_SECONDS == 60
DECAY_SECONDS == 60
MAX_FAILED == 3

NoTime == -1
Anonymous == 0

----------------------------------------------------------------------------
(* Text *)

UpperCase ==
    <<"A","B","C","D","E","F","G","H","I","J","K","L","M",
      "N","O","P","Q","R","S","T","U","V","W","X","Y","Z">>

LowerCase ==
    <<"a","b","c","d","e","f","g","h","i","j","k","l","m",
      "n","o","p","q","r","s","t","u","v","w","x","y","z">>

Digits == {"0","1","2","3","4","5","6","7","8","9"}

Range(s) == {s[i] : i \in DOMAIN s}

IsSpace(c) == c \in {" ", "\t", "\n", "\r"}

LowerChar(c) ==
    IF \E i \in DOMAIN UpperCase : UpperCase[i] = c
    THEN LowerCase[CHOOSE i \in DOMAIN UpperCase : UpperCase[i] = c]
    ELSE c

\* str.lower()
Lower(s) == [i \in DOMAIN s |-> LowerChar(s[i])]

RECURSIVE LStrip(_)
LStrip(s) == IF s # <<>> /\ IsSpace(Head(s)) THEN LStrip(Tail(s)) ELSE s

RECURSIVE RStrip(_)
RStrip(s) ==
    IF s # <<>> /\ IsSpace(s[Len(s)]) THEN RStrip(SubSeq(s, 1, Len(s) - 1)) ELSE s

\* str.strip()
Strip(s) == RStrip(LStrip(s))

\* re.fullmatch(r"[A-Za-z0-9_-]+", s)
IsMaSvChar(c) == c \in Range(UpperCase) \cup Range(LowerCase) \cup Digits \cup {"_", "-"}

FullMatchMaSv(s) == s # <<>> /\ \A i \in DOMAIN s : IsMaSvChar(s[i])

\* wtforms DataRequired: the field holds something else than whitespace
DataRequired(s) == Strip(s) # <<>>

----------------------------------------------------------------------------
(* Passwords *)

\* bcrypt.generate_password_hash: a hash is checked by hashing again
generate_password_hash(plain) == <<"bcrypt">> \o plain

\* Student.check_password
check_password(user, plain) == user.mat_khau = generate_password_hash(plain)

----------------------------------------------------------------------------
(* The students table *)

ADMIN_MA_SV == <<"A","D","M","I","N">>
ADMIN_EMAIL == <<"a","d","m","i","n","@","g","m","a","i","l",".","c","o","m">>
ADMIN_PASSWORD == <<"1","2","3","4","5","6">>

\* Student(...): the column defaults of a new row
Student(ma_sv, ten_sv, email, mat_khau, gioi_tinh, dia_chi, role) ==
    [ ma_sv |-> ma_sv, ten_sv |-> ten_sv, email |-> email, mat_khau |-> mat_khau,
      role |-> role, gioi_tinh |-> gioi_tinh, dia_chi |-> dia_chi,
      failed_attempts |-> 0, last_failed_at |-> NoTime, lock_until |-> NoTime ]

\* the admin account seeded when the application starts
SeedAdmin ==
    Student(ADMIN_MA_SV, <<"A","d","m","i","n">>, ADMIN_EMAIL,
            generate_password_hash(ADMIN_PASSWORD), <<>>, <<>>, "admin")

SEED_ID == 1

is_authenticated == current_user \in DOMAIN db

----------------------------------------------------------------------------
(* Login lock helpers *)

is_locked_reversed(user, t) == user.lock_until # NoTime /\ user.lock_until < t

is_locked(user, t) == user.lock_until # NoTime /\ user.lock_until > t

record_failed_login_keeps_stale(user, t) ==
    LET n == user.failed_attempts + 1
    IN  IF n >= MAX_FAILED
        THEN [user EXCEPT !.failed_attempts = 0, !.last_failed_at = t,
                          !.lock_until = t + LOCK_SECONDS]
        ELSE [user EXCEPT !.failed_attempts = n, !.last_failed_at = t]

record_failed_login_no_lock(user, t) ==
    LET base == IF user.last_failed_at # NoTime /\ (t - user.last_failed_at) > DECAY_SECONDS
                THEN 0 ELSE user.failed_attempts
    IN  [user EXCEPT !.failed_attempts = (base + 1) % MAX_FAILED, !.last_failed_at = t]

record_failed_login_escalates(user, t) ==
    LET base == IF user.last_failed_at # NoTime /\ (t - user.last_failed_at) > DECAY_SECONDS
                THEN 0 ELSE user.failed_attempts
        n == base + 1
    IN  IF n >= MAX_FAILED
        THEN [user EXCEPT !.failed_attempts = 0, !.last_failed_at = t,
                          !.lock_until = IF user.lock_until = NoTime
                                         THEN t + LOCK_SECONDS
                                         ELSE t + LOCK_SECONDS + LOCK_SECONDS]
        ELSE [user EXCEPT !.failed_attempts = n, !.last_failed_at = t]

record_failed_login_stores_three(user, t) ==
    LET base == IF user.last_failed_at # NoTime /\ (t - user.last_failed_at) > DECAY_SECONDS
                THEN 0 ELSE user.failed_attempts
        n == base + 1
    IN  IF n >= MAX_FAILED
        THEN [user EXCEPT !.failed_attempts = n, !.last_failed_at = t,
                          !.lock_until = t + LOCK_SECONDS]
        ELSE [user EXCEPT !.failed_attempts = n, !.last_failed_at = t]

record_failed_login(user, t) ==
    LET base == IF user.last_failed_at # NoTime /\ (t - user.last_failed_at) > DECAY_SECONDS
                THEN 0 ELSE user.failed_attempts
        n == base + 1
    IN  IF n >= MAX_FAILED
        THEN [user EXCEPT !.failed_attempts = 0, !.last_failed_at = t,
                          !.lock_until = t + LOCK_SECONDS]
        ELSE [user EXCEPT !.failed_attempts = n, !.last_failed_at = t]

clear_failed_login_keeps_counter(user) ==
    [user EXCEPT !.last_failed_at = NoTime, !.lock_until = NoTime]

clear_failed_login_keeps_lock(user) ==
    [user EXCEPT !.failed_attempts = 0, !.last_failed_at = NoTime]

clear_failed_login(user) ==
    [user EXCEPT !.failed_attempts = 0, !.last_failed_at = NoTime, !.lock_until = NoTime]

----------------------------------------------------------------------------
(* Requests and responses *)

\* the lockout columns of a row as a handler loaded it
Loaded(row) == [failed_attempts |-> row.failed_attempts, lock_until |-> row.lock_until]

NoRow == [failed_attempts |-> 0, lock_until |-> NoTime]

\* what a handler answered: the outcome, the account it found and the lockout
\* columns of that account when it was loaded
Response(handler, status, user, loaded) ==
    [handler |-> handler, status |-> status, user |-> user, loaded |-> loaded]

NoResponse == Response("none", "none", Anonymous, NoRow)

\* Student.query.filter((ma_sv == ident) | (email == ident.lower()))
login_query(ident) ==
    {u \in DOMAIN db : db[u].ma_sv = ident \/ db[u].email = Lower(ident)}

\* Student.query.filter((email == identifier) | (ma_sv == identifier))
auth_login_query(identifier) ==
    {u \in DOMAIN db : db[u].email = identifier \/ db[u].ma_sv = identifier}

\* the wrong-password attempts handled by app.py login on one account since its
\* last successful login, the latest MAX_FAILED of them: when it was made,
\* whether the password was checked (the account was not locked) and whether
\* the failure counter it found was zero or stale
Attempt(t, checked, fresh) == [t |-> t, checked |-> checked, fresh |-> fresh]

Remember(log, a) ==
    IF Len(log) < MAX_FAILED THEN Append(log, a) ELSE Append(Tail(log), a)

CounterIsFresh(user, t) ==
    \/ user.failed_attempts = 0
    \/ user.last_failed_at # NoTime /\ (t - user.last_failed_at) > DECAY_SECONDS

----------------------------------------------------------------------------
(* Routes - Auth *)

\* app.py: POST /login
login(identifier, password) ==
    /\ UNCHANGED <<now, reqs, served, ops, grades, imp>>
    /\ IF is_authenticated
       THEN /\ resp' = Response("login", "redirect_home", current_user, NoRow)
            /\ UNCHANGED <<db, current_user, attempts>>
       ELSE IF ~DataRequired(identifier) \/ ~DataRequired(password)
       THEN /\ resp' = Response("login", "form_invalid", Anonymous, NoRow)
            /\ UNCHANGED <<db, current_user, attempts>>
       ELSE LET ident == Strip(identifier)
                found == login_query(ident)
            IN  IF found = {}
                THEN /\ resp' = Response("login", "no_user", Anonymous, NoRow)
                     /\ UNCHANGED <<db, current_user, attempts>>
                ELSE \E u \in found :
                       IF is_locked(db[u], now)
                       THEN /\ resp' = Response("login", "locked", u, Loaded(db[u]))
                            /\ attempts' =
                                 IF check_password(db[u], password) THEN attempts
                                 ELSE [attempts EXCEPT
                                         ![u] = Remember(@, Attempt(now, FALSE, FALSE))]
                            /\ UNCHANGED <<db, current_user>>
                       ELSE IF ~check_password(db[u], password)
                       THEN /\ db' = [db EXCEPT ![u] = record_failed_login(@, now)]
                            /\ resp' = Response("login", "wrong_password", u, Loaded(db[u]))
                            /\ attempts' =
                                 [attempts EXCEPT
                                    ![u] = Remember(@, Attempt(now, TRUE,
                                                               CounterIsFresh(db[u], now)))]
                            /\ UNCHANGED current_user
                       ELSE /\ db' = [db EXCEPT ![u] = clear_failed_login(@)]
                            /\ current_user' = u
                            /\ resp' = Response("login", "ok", u, Loaded(db[u]))
                            /\ attempts' = [attempts EXCEPT ![u] = <<>>]

\* auth.py: POST /login (blueprint auth)
auth_login(identifier_field, password_field) ==
    /\ UNCHANGED <<now, db, attempts, reqs, served, ops, grades, imp>>
    /\ IF is_authenticated
       THEN /\ resp' = Response("auth.login", "redirect_home", current_user, NoRow)
            /\ UNCHANGED current_user
       ELSE LET identifier == Strip(identifier_field)
                password == Strip(password_field)
                found == auth_login_query(identifier)
            IN  IF identifier = <<>> \/ password = <<>>
                THEN /\ resp' = Response("auth.login", "form_invalid", Anonymous, NoRow)
                     /\ UNCHANGED current_user
                ELSE IF found = {}
                THEN /\ resp' = Response("auth.login", "no_user", Anonymous, NoRow)
                     /\ UNCHANGED current_user
                ELSE \E u \in found :
                       IF ~check_password(db[u], password)
                       THEN /\ resp' = Response("auth.login", "wrong_password", u, Loaded(db[u]))
                            /\ UNCHANGED current_user
                       ELSE /\ current_user' = u
                            /\ resp' = Response("auth.login", "ok", u, Loaded(db[u]))

\* app.py: GET /logout
logout ==
    /\ is_authenticated
    /\ current_user' = Anonymous
    /\ resp' = Response("logout", "ok", current_user, NoRow)
    /\ UNCHANGED <<now, db, attempts, reqs, served, ops, grades, imp>>

\* the clock advances
Tick ==
    /\ now + TickStep <= MaxTime
    /\ now' = now + TickStep
    /\ UNCHANGED <<db, current_user, resp, attempts, reqs, served, ops, grades, imp>>

----------------------------------------------------------------------------
(* Inputs of the login form *)

LoginIdentifiers ==
    { <<" ">> \o ADMIN_MA_SV \o <<" ">>,
      <<"A","d","m","i","n","@","G","m","a","i","l",".","c","o","m">>,
      <<"a","d","m","i","n">>,
      <<" ">> }

LoginPasswords ==
    { ADMIN_PASSWORD,
      ADMIN_PASSWORD \o <<" ">>,
      <<"6","5","4","3","2","1">> }

NoRequests == <<>>
NoImport == [pc |-> "idle"]

\* the state after app.py ran: the tables exist and the admin is seeded
Init ==
    /\ now = 0
    /\ db = (SEED_ID :> SeedAdmin)
    /\ current_user = Anonymous
    /\ resp = NoResponse
    /\ attempts = (SEED_ID :> <<>>)
    /\ reqs = NoRequests
    /\ served = 0
    /\ ops = 0
    /\ grades = <<>>
    /\ imp = NoImport

Login == \E i \in LoginIdentifiers, p \in LoginPasswords : login(i, p)

AuthLogin == \E i \in LoginIdentifiers, p \in LoginPasswords : auth_login(i, p)

Next == Login \/ AuthLogin \/ logout \/ Tick

Spec == Init /\ [][Next]_vars

----------------------------------------------------------------------------
(* Concurrent login requests: app.py login, one worker per request.  Each      *)
(* worker loads the row, tests the lock and the password on the row it loaded, *)
(* and commits its changes in a transaction of its own.                        *)

NumWorkers == 2
MaxRequests == 5

Workers == 1..NumWorkers

Request(pc, user, row, password, result) ==
    [pc |-> pc, user |-> user, row |-> row, password |-> password, result |-> result]

IdleRequest(result) == Request("idle", Anonymous, NoRow, <<>>, result)

\* db.session.commit() of a row loaded as `loaded` and changed to `changed`:
\* the UPDATE sets the columns whose value differs from the loaded one
commit_changes(stored, loaded, changed) ==
    [ stored EXCEPT
        !.failed_attempts = IF changed.failed_attempts # loaded.failed_attempts
                            THEN changed.failed_attempts ELSE @,
        !.last_failed_at = IF changed.last_failed_at # loaded.last_failed_at
                           THEN changed.last_failed_at ELSE @,
        !.lock_until = IF changed.lock_until # loaded.lock_until
                       THEN changed.lock_until ELSE @ ]

\* form.validate_on_submit() and Student.query.filter(...).first()
login_load(w, identifier, password) ==
    /\ reqs[w].pc = "idle"
    /\ served < MaxRequests
    /\ DataRequired(identifier) /\ DataRequired(password)
    /\ \E u \in login_query(Strip(identifier)) :
           reqs' = [reqs EXCEPT ![w] = Request("loaded", u, db[u], password, "none")]
    /\ served' = served + 1
    /\ UNCHANGED <<now, db, current_user, resp, attempts, ops, grades, imp>>

\* if is_locked(user): ... return; if not user.check_password(pw): ...
login_check(w) ==
    /\ reqs[w].pc = "loaded"
    /\ reqs' = [reqs EXCEPT ![w] =
                  IF is_locked(@.row, now) THEN IdleRequest("locked")
                  ELSE IF ~check_password(@.row, @.password)
                  THEN [@ EXCEPT !.pc = "record_failed_login"]
                  ELSE [@ EXCEPT !.pc = "clear_failed_login"]]
    /\ UNCHANGED <<now, db, current_user, resp, attempts, served, ops, grades, imp>>

\* record_failed_login(user); return render_template(...)
login_record_failed(w) ==
    /\ reqs[w].pc = "record_failed_login"
    /\ LET u == reqs[w].user
           row == reqs[w].row
       IN  db' = [db EXCEPT ![u] = commit_changes(@, row, record_failed_login(row, now))]
    /\ reqs' = [reqs EXCEPT ![w] = IdleRequest("wrong_password")]
    /\ UNCHANGED <<now, current_user, resp, attempts, served, ops, grades, imp>>

\* clear_failed_login(user); login_user(user)
login_clear_failed(w) ==
    /\ reqs[w].pc = "clear_failed_login"
    /\ LET u == reqs[w].user
           row == reqs[w].row
       IN  db' = [db EXCEPT ![u] = commit_changes(@, row, clear_failed_login(row))]
    /\ reqs' = [reqs EXCEPT ![w] = IdleRequest("ok")]
    /\ UNCHANGED <<now, current_user, resp, attempts, served, ops, grades, imp>>

ConcurrentPasswords == {ADMIN_PASSWORD, <<"6","5","4","3","2","1">>}

InitConcurrent ==
    /\ now = 0
    /\ db = (SEED_ID :> SeedAdmin)
    /\ current_user = Anonymous
    /\ resp = NoResponse
    /\ attempts = (SEED_ID :> <<>>)
    /\ reqs = [w \in Workers |-> IdleRequest("none")]
    /\ served = 0
    /\ ops = 0
    /\ grades = <<>>
    /\ imp = NoImport

LoginLoad == \E w \in Workers, p \in ConcurrentPasswords : login_load(w, ADMIN_MA_SV, p)

LoginCheck == \E w \in Workers : login_check(w)

LoginRecordFailed == \E w \in Workers : login_record_failed(w)

LoginClearFailed == \E w \in Workers : login_clear_failed(w)

NextConcurrent == LoginLoad \/ LoginCheck \/ LoginRecordFailed \/ LoginClearFailed \/ Tick

SpecConcurrent == InitConcurrent /\ [][NextConcurrent]_vars

----------------------------------------------------------------------------
(* Roster import: admin_routes.py admin_students_import and the older app.py    *)
(* students_import.  A sheet is a header row and data rows; a cell is NULL or   *)
(* holds text.  The header names are written without their diacritics.         *)

MaxRows == 2
MaxImports == 2

NoneCell == [null |-> TRUE, text |-> <<>>]

TextCell(t) == [null |-> FALSE, text |-> t]

_norm_cell(x) == IF x.null THEN <<>> ELSE Strip(x.text)

H_MA_SV == <<"M","a"," ","S","V">>
H_TEN == <<"T","e","n">>
H_EMAIL == <<"E","m","a","i","l">>
H_MAT_KHAU == <<"M","a","t"," ","k","h","a","u">>
H_GIOI_TINH == <<"G","i","o","i"," ","t","i","n","h">>
H_DIA_CHI == <<"D","i","a"," ","c","h","i">>

EXPORT_HEADERS == <<H_MA_SV, H_TEN, H_EMAIL, H_MAT_KHAU, H_GIOI_TINH, H_DIA_CHI>>

\* header_cells = [_norm_cell(c.value) for c in first row]
header_cells(sheet) == [k \in DOMAIN sheet.header |-> _norm_cell(sheet.header[k])]

\* col_index = {name: idx for idx, name in enumerate(header_cells) if name}:
\* a name that occurs twice keeps its last position
col_index(cells) ==
    [name \in {cells[k] : k \in DOMAIN cells} \ {<<>>} |->
        CHOOSE k \in DOMAIN cells :
            cells[k] = name /\ \A j \in DOMAIN cells : cells[j] = name => j <= k]

missing_first_only(cols) ==
    IF EXPORT_HEADERS[1] \in DOMAIN cols THEN {} ELSE {EXPORT_HEADERS[1]}

\* missing = [h for h in EXPORT_HEADERS if h not in col_index]
missing(cols) == {h \in Range(EXPORT_HEADERS) : h \notin DOMAIN cols}

\* _norm_cell(row[col_index[h]] if col_index[h] < len(row) else None)
field(row, cols, h) ==
    IF h \in DOMAIN cols /\ cols[h] <= Len(row) THEN _norm_cell(row[cols[h]]) ELSE <<>>

\* the six values read from a data row
row_fields(row, cols) ==
    [ ma_sv |-> field(row, cols, H_MA_SV),
      ten_sv |-> field(row, cols, H_TEN),
      email |-> Lower(field(row, cols, H_EMAIL)),
      mat_khau_plain |-> field(row, cols, H_MAT_KHAU),
      gioi_tinh |-> field(row, cols, H_GIOI_TINH),
      dia_chi |-> field(row, cols, H_DIA_CHI) ]

row_is_skipped_no_pattern(f) == f.ma_sv = <<>> \/ f.ten_sv = <<>> \/ f.email = <<>>

\* if not ma_sv or not ten_sv or not email: skip; if not re.fullmatch(...): skip
row_is_skipped(f) ==
    \/ f.ma_sv = <<>> \/ f.ten_sv = <<>> \/ f.email = <<>>
    \/ ~FullMatchMaSv(f.ma_sv)

\* the unique constraints of the students table
is_unique(table) ==
    \A a, b \in DOMAIN table :
        a # b => (table[a].ma_sv # table[b].ma_sv /\ table[a].email # table[b].email)

\* the largest id in use; 0 when the table is empty
MaxId(table) ==
    IF DOMAIN table = {} THEN 0
    ELSE CHOOSE m \in DOMAIN table : \A a \in DOMAIN table : a <= m

\* the id the table gives a new row
new_id(table) == MaxId(table) + 1

by_ma_sv(table, ma_sv) == {a \in DOMAIN table : table[a].ma_sv = ma_sv}

by_email(table, email) == {a \in DOMAIN table : table[a].email = email}

resolve_always_new(handler, table, f) == {new_id(table)}

\* sv = Student.query.filter_by(ma_sv=ma_sv).first(), then by email (the admin
\* import only), then Student(ma_sv=ma_sv): the ids sv may be
resolve(handler, table, f) ==
    IF by_ma_sv(table, f.ma_sv) # {} THEN by_ma_sv(table, f.ma_sv)
    ELSE IF handler = "admin_students_import" /\ by_email(table, f.email) # {}
    THEN by_email(table, f.email)
    ELSE {new_id(table)}

upsert_without_add(handler, table, a, f, hashed) ==
    IF a \notin DOMAIN table THEN table
    ELSE [table EXCEPT ![a] = [@ EXCEPT !.ma_sv = f.ma_sv, !.ten_sv = f.ten_sv,
                                        !.email = f.email, !.mat_khau = hashed,
                                        !.gioi_tinh = f.gioi_tinh, !.dia_chi = f.dia_chi,
                                        !.role = IF handler = "admin_students_import"
                                                 THEN "student" ELSE @]]

upsert_keeps_role(handler, table, a, f, hashed) ==
    LET old == IF a \in DOMAIN table THEN table[a]
               ELSE Student(f.ma_sv, <<>>, <<>>, <<>>, <<>>, <<>>, "student")
        sv == [old EXCEPT !.ma_sv = f.ma_sv, !.ten_sv = f.ten_sv, !.email = f.email,
                          !.mat_khau = hashed, !.gioi_tinh = f.gioi_tinh,
                          !.dia_chi = f.dia_chi]
    IN  [b \in DOMAIN table \cup {a} |-> IF b = a THEN sv ELSE table[b]]

\* sv.ma_sv = ...; ...; sv.role = "student" (the admin import only)
upsert(handler, table, a, f, hashed) ==
    LET old == IF a \in DOMAIN table THEN table[a]
               ELSE Student(f.ma_sv, <<>>, <<>>, <<>>, <<>>, <<>>, "student")
        sv == [old EXCEPT !.ma_sv = f.ma_sv, !.ten_sv = f.ten_sv, !.email = f.email,
                          !.mat_khau = hashed, !.gioi_tinh = f.gioi_tinh,
                          !.dia_chi = f.dia_chi,
                          !.role = IF handler = "admin_students_import"
                                   THEN "student" ELSE @]
    IN  [b \in DOMAIN table \cup {a} |-> IF b = a THEN sv ELSE table[b]]

\* generate_random_password(10) / _random_password(10): two of its values
RandomPasswords ==
    { <<"k","3","T","z","9","Q","a","b","7","X">>,
      <<"P","w","4","m","N","0","c","d","E","5">> }

ImportResponse(handler, status, added, skipped) ==
    [handler |-> handler, status |-> status, user |-> current_user, loaded |-> NoRow,
     added |-> added, skipped |-> skipped]

\* the request's locals while the loop over the data rows runs; session is the
\* table as db.session sees it, the changes of the last row not yet flushed;
\* targets lists, row by row, the id sv was bound to (Anonymous for a skipped row)
Importing(handler, sheet, cols, i, added, skipped, session, sv) ==
    [pc |-> "rows", handler |-> handler, sheet |-> sheet, cols |-> cols, i |-> i,
     added |-> added, skipped |-> skipped, session |-> session, sv |-> sv,
     targets |-> <<>>]

ImportHandlers == {"admin_students_import", "students_import"}

\* @login_required, @roles_required("admin"), the file and the header row
students_import_open(handler, sheet) ==
    /\ imp.pc = "idle"
    /\ served < MaxImports
    /\ served' = served + 1
    /\ UNCHANGED <<now, db, current_user, attempts, reqs, ops, grades>>
    /\ IF ~is_authenticated
       THEN /\ resp' = ImportResponse(handler, "redirect_login", 0, 0)
            /\ UNCHANGED imp
       ELSE IF handler = "admin_students_import" /\ db[current_user].role # "admin"
       THEN /\ resp' = ImportResponse(handler, "forbidden_403", 0, 0)
            /\ UNCHANGED imp
       ELSE LET cols == col_index(header_cells(sheet))
            IN  IF missing(cols) # {}
                THEN /\ resp' = ImportResponse(handler, "missing_columns", 0, 0)
                     /\ UNCHANGED imp
                ELSE /\ imp' = Importing(handler, sheet, cols, 1, 0, 0, db, Anonymous)
                     /\ UNCHANGED resp

\* one turn of: for row in ws.iter_rows(min_row=2, values_only=True)
students_import_row ==
    /\ imp.pc = "rows"
    /\ imp.i <= Len(imp.sheet.rows)
    /\ UNCHANGED <<now, db, current_user, attempts, reqs, served, ops, grades>>
    /\ LET f == row_fields(imp.sheet.rows[imp.i], imp.cols)
       IN  IF row_is_skipped(f)
           THEN /\ imp' = [imp EXCEPT !.i = @ + 1, !.skipped = @ + 1, !.sv = Anonymous,
                                       !.targets = Append(@, Anonymous)]
                /\ UNCHANGED resp
           ELSE IF ~is_unique(imp.session)
           THEN \* the query flushes the row before: IntegrityError, not caught
                /\ imp' = NoImport
                /\ resp' = ImportResponse(imp.handler, "error_500", 0, 0)
           ELSE \E a \in resolve(imp.handler, imp.session, f),
                   plain \in IF f.mat_khau_plain = <<>> THEN RandomPasswords
                             ELSE {f.mat_khau_plain} :
                    /\ imp' = [imp EXCEPT
                                 !.i = @ + 1,
                                 !.added = IF a \in DOMAIN imp.session THEN @ ELSE @ + 1,
                                 !.sv = a,
                                 !.targets = Append(@, a),
                                 !.session = upsert(imp.handler, imp.session, a, f,
                                                    generate_password_hash(plain))]
                    /\ UNCHANGED resp

\* db.session.commit() after the loop
students_import_commit ==
    /\ imp.pc = "rows"
    /\ imp.i > Len(imp.sheet.rows)
    /\ imp' = NoImport
    /\ UNCHANGED <<now, current_user, attempts, reqs, served, ops, grades>>
    /\ IF is_unique(imp.session)
       THEN /\ db' = imp.session
            /\ resp' = ImportResponse(imp.handler, "imported", imp.added, imp.skipped)
       ELSE /\ UNCHANGED db
            /\ resp' = IF imp.handler = "students_import"
                       THEN ImportResponse(imp.handler, "import_failed", 0, 0)
                       ELSE ImportResponse(imp.handler, "error_500", 0, 0)

----------------------------------------------------------------------------
(* The sheets uploaded *)

SV1 == <<"S","V","1">>
SV2 == <<"S","V","2">>
SV4 == <<"S","V","4">>
EMAIL_A == <<"a","@","x",".","v","n">>
EMAIL_B == <<"b","@","x",".","v","n">>
PASSWORD_1 == <<"p","a","s","s","1","2","3">>

DataRow(ma_sv, ten_sv, email, mat_khau, gioi_tinh, dia_chi) ==
    [ ma_sv |-> ma_sv, ten_sv |-> ten_sv, email |-> email, mat_khau |-> mat_khau,
      gioi_tinh |-> gioi_tinh, dia_chi |-> dia_chi ]

RowPool ==
    { \* a new student
      DataRow(TextCell(SV1), TextCell(<<"A","n">>), TextCell(EMAIL_A),
              TextCell(PASSWORD_1), TextCell(<<"N","a","m">>), TextCell(<<"H","N">>)),
      \* the same identifier, padded, another email, no password
      DataRow(TextCell(<<" ">> \o SV1), TextCell(<<"A","n"," ","B">>), TextCell(EMAIL_B),
              NoneCell, NoneCell, TextCell(<<" ">>)),
      \* another identifier, the first email in capitals
      DataRow(TextCell(SV2), TextCell(<<"B","i","n","h">>),
              TextCell(<<"A","@","X",".","V","N"," ">>),
              TextCell(<<"q","w","e","r","t","y">>), TextCell(<<"N","u">>), NoneCell),
      \* an identifier with a space
      DataRow(TextCell(<<"S"," ","V">>), TextCell(<<"C">>), TextCell(<<"c","@","x",".","v","n">>),
              NoneCell, NoneCell, NoneCell),
      \* no name
      DataRow(TextCell(<<"S","V","3">>), TextCell(<<" ">>), TextCell(<<"d","@","x",".","v","n">>),
              TextCell(PASSWORD_1), NoneCell, NoneCell),
      \* a new identifier with the email of the seeded admin
      DataRow(TextCell(SV4), TextCell(<<"E","m">>), TextCell(ADMIN_EMAIL),
              TextCell(PASSWORD_1), NoneCell, NoneCell),
      \* the identifier of the seeded admin with the first email
      DataRow(TextCell(ADMIN_MA_SV), TextCell(<<"B","o","s","s">>), TextCell(EMAIL_A),
              TextCell(PASSWORD_1), NoneCell, NoneCell) }

Layouts ==
    { [k \in 1..6 |-> TextCell(EXPORT_HEADERS[k])],
      \* the columns in reverse order, one name padded, and a column more
      <<TextCell(H_DIA_CHI), TextCell(<<"S","T","T">>), TextCell(H_GIOI_TINH),
        TextCell(H_MAT_KHAU), TextCell(<<" ">> \o H_EMAIL \o <<" ">>), TextCell(H_TEN),
        TextCell(H_MA_SV)>>,
      \* no Email column
      <<TextCell(H_MA_SV), TextCell(H_TEN), NoneCell, TextCell(H_MAT_KHAU),
        TextCell(H_GIOI_TINH), TextCell(H_DIA_CHI)>> }

\* the worksheet that holds the data rows under the header row `layout`
Sheet(layout, records) ==
    [ header |-> layout,
      rows |-> [j \in DOMAIN records |->
                  [k \in DOMAIN layout |->
                      LET name == _norm_cell(layout[k])
                      IN  IF name = H_MA_SV THEN records[j].ma_sv
                          ELSE IF name = H_TEN THEN records[j].ten_sv
                          ELSE IF name = H_EMAIL THEN records[j].email
                          ELSE IF name = H_MAT_KHAU THEN records[j].mat_khau
                          ELSE IF name = H_GIOI_TINH THEN records[j].gioi_tinh
                          ELSE IF name = H_DIA_CHI THEN records[j].dia_chi
                          ELSE TextCell(<<"1">>)]] ]

RowLists == UNION {[1..n -> RowPool] : n \in 0..MaxRows}

Sheets == {Sheet(layout, records) : layout \in Layouts, records \in RowLists}

SignIns == {<<ADMIN_MA_SV, ADMIN_PASSWORD>>, <<SV1, PASSWORD_1>>}

SignIn == imp.pc = "idle" /\ \E c \in SignIns : auth_login(c[1], c[2])

SignOut == imp.pc = "idle" /\ logout

ImportOpen == \E h \in ImportHandlers, sheet \in Sheets : students_import_open(h, sheet)

NextImport ==
    SignIn \/ SignOut \/ ImportOpen \/ students_import_row \/ students_import_commit

SpecImport == Init /\ [][NextImport]_vars

----------------------------------------------------------------------------
(* The login guard: properties of app.py login *)

\* a step of app.py login, made by a client that is not logged in, with
\* password p, that found account u
LoginAttempt(u, p) ==
    /\ ~is_authenticated
    /\ resp'.handler = "login"
    /\ resp'.user = u
    /\ resp'.status \in {"locked", "wrong_password", "ok"}
    /\ \E i \in LoginIdentifiers : login(i, p)

PasswordIsRight(u, p) == db[u].mat_khau = generate_password_hash(p)

LockIsActive(u) == db[u].lock_until # NoTime /\ db[u].lock_until > now

Rejected == current_user' = Anonymous /\ resp'.status # "ok"

LockoutFieldsUnchanged(u) ==
    /\ db'[u].failed_attempts = db[u].failed_attempts
    /\ db'[u].last_failed_at = db[u].last_failed_at
    /\ db'[u].lock_until = db[u].lock_until

LockoutFieldsCleared(u) ==
    /\ db'[u].failed_attempts = 0
    /\ db'[u].last_failed_at = NoTime
    /\ db'[u].lock_until = NoTime

\* the last three wrong-password attempts on u, the third at most 60 seconds
\* after the first, and the clock less than 60 seconds after the third
ThreeWrongWithinWindow(u) ==
    /\ Len(attempts[u]) = 3
    /\ attempts[u][3].t - attempts[u][1].t <= 60
    /\ now < attempts[u][3].t + 60

\* the same, each of the three having had its password checked (none was
\* turned away by a lock) and the first having found no earlier failure that
\* still counted
ThreeCountedWithinWindow(u) ==
    /\ ThreeWrongWithinWindow(u)
    /\ \A k \in 1..3 : attempts[u][k].checked
    /\ attempts[u][1].fresh

\* C1 as claimed: after three wrong-password attempts on an account with no
\* successful login between them, the third at most 60 seconds after the
\* first, every login attempt on it less than 60 seconds after the third is
\* rejected without a session, whatever its password.
C1_AnyThreeWrongRejectNext ==
    [][\A u \in DOMAIN db, p \in LoginPasswords :
          (ThreeWrongWithinWindow(u) /\ LoginAttempt(u, p)) => Rejected]_vars

\* C1 amended: the same for three consecutive wrong-password attempts that were
\* each checked against the password (the account was not locked when they were
\* made), the first of which found a failure counter of zero or a stale one.
C1_ThreeCountedRejectNext ==
    [][\A u \in DOMAIN db, p \in LoginPasswords :
          (ThreeCountedWithinWindow(u) /\ LoginAttempt(u, p)) => Rejected]_vars

C1_Witness ==
    \E u \in DOMAIN db :
        /\ ThreeCountedWithinWindow(u)
        /\ now > attempts[u][3].t
        /\ resp.handler = "login" /\ resp.status = "locked" /\ resp.user = u
        /\ current_user = Anonymous

\* C3: a login attempt on an account whose lock_until is later than the current
\* time establishes no session and leaves failed_attempts, last_failed_at and
\* lock_until as they were, for a right and for a wrong password.
C3_LockedAttemptChangesNothing ==
    [][\A u \in DOMAIN db, p \in LoginPasswords :
          (LockIsActive(u) /\ LoginAttempt(u, p))
              => (Rejected /\ LockoutFieldsUnchanged(u))]_vars

C3_Witness ==
    \E u \in DOMAIN db :
        /\ LockIsActive(u)
        /\ resp.handler = "login" /\ resp.status = "locked" /\ resp.user = u
        /\ db[u].last_failed_at < now

\* C4: a wrong-password attempt on an account that is not locked resets
\* failed_attempts to 0 if more than 60 seconds passed since last_failed_at,
\* adds 1 and sets last_failed_at to the current time; reaching 3 sets
\* lock_until to the current time plus 60 seconds and failed_attempts to 0,
\* and otherwise lock_until is unchanged.
C4_RecordFailedLogin ==
    [][\A u \in DOMAIN db, p \in LoginPasswords :
          (~LockIsActive(u) /\ ~PasswordIsRight(u, p) /\ LoginAttempt(u, p))
              => LET start == IF /\ db[u].last_failed_at # NoTime
                                 /\ now - db[u].last_failed_at > 60
                              THEN 0 ELSE db[u].failed_attempts
                     n == start + 1
                 IN  /\ db'[u].last_failed_at = now
                     /\ IF n = 3
                        THEN db'[u].lock_until = now + 60 /\ db'[u].failed_attempts = 0
                        ELSE /\ db'[u].lock_until = db[u].lock_until
                             /\ db'[u].failed_attempts = n]_vars

\* a failure recorded after two earlier ones went stale: the counter restarts
C4_Witness ==
    \E u \in DOMAIN db :
        /\ resp.handler = "login" /\ resp.status = "wrong_password" /\ resp.user = u
        /\ resp.loaded.failed_attempts = 2
        /\ db[u].failed_attempts = 1
        /\ db[u].last_failed_at = now
        /\ Len(attempts[u]) = 3
        /\ attempts[u][3].t - attempts[u][2].t > 60

\* C5: once the clock has reached a locked account's lock_until, a login
\* attempt with the right password establishes a session and leaves
\* failed_attempts = 0, last_failed_at and lock_until null; and lock_until is
\* never more than 60 seconds after the failure that set it.
C5_CorrectLoginAfterExpiry ==
    /\ [](\A u \in DOMAIN db :
            db[u].lock_until # NoTime =>
                /\ db[u].last_failed_at # NoTime
                /\ db[u].lock_until <= db[u].last_failed_at + 60)
    /\ [][\A u \in DOMAIN db, p \in LoginPasswords :
            ( /\ PasswordIsRight(u, p)
              /\ db[u].lock_until # NoTime
              /\ now >= db[u].lock_until
              /\ LoginAttempt(u, p) )
                => (current_user' = u /\ resp'.status = "ok" /\ LockoutFieldsCleared(u))]_vars

\* a session established at the very second the lock expired
C5_Witness ==
    \E u \in DOMAIN db :
        /\ resp.handler = "login" /\ resp.status = "ok" /\ resp.user = u
        /\ resp.loaded.lock_until = now
        /\ current_user = u
        /\ db[u].failed_attempts = 0
        /\ db[u].last_failed_at = NoTime
        /\ db[u].lock_until = NoTime

\* C6: a right-password login on an account with 1 or 2 recorded failures and
\* no active lock establishes a session, sets failed_attempts to 0 and leaves
\* lock_until null; the next wrong-password attempt counts from 1.
C6_CorrectLoginResetsCounter ==
    /\ [][\A u \in DOMAIN db, p \in LoginPasswords :
            ( /\ PasswordIsRight(u, p)
              /\ db[u].failed_attempts \in {1, 2}
              /\ ~LockIsActive(u)
              /\ LoginAttempt(u, p) )
                => /\ current_user' = u
                   /\ resp'.status = "ok"
                   /\ db'[u].failed_attempts = 0
                   /\ db'[u].lock_until = NoTime]_vars
    /\ [][\A u \in DOMAIN db, p \in LoginPasswords :
            ( /\ attempts[u] = <<>>
              /\ resp'.status = "wrong_password"
              /\ LoginAttempt(u, p) )
                => /\ db'[u].failed_attempts = 1
                   /\ db'[u].lock_until = NoTime]_vars

\* a session established on an account that had two failures recorded
C6_Witness ==
    \E u \in DOMAIN db :
        /\ resp.handler = "login" /\ resp.status = "ok" /\ resp.user = u
        /\ resp.loaded.failed_attempts = 2
        /\ resp.loaded.lock_until = NoTime
        /\ current_user = u
        /\ db[u].failed_attempts = 0
        /\ db[u].lock_until = NoTime

\* C2: every handler that checks an identifier/password pair and establishes a
\* session refuses an account whose lock_until is in the future, and records
\* every wrong-password attempt on an existing account in its lockout fields.
C2_EveryLoginHandlerGuarded ==
    [][\A u \in DOMAIN db :
          /\ (current_user = Anonymous /\ current_user' = u) => ~LockIsActive(u)
          /\ ( /\ resp' # resp
               /\ resp'.status = "wrong_password"
               /\ resp'.user = u )
                 => db'[u].last_failed_at = now]_vars

----------------------------------------------------------------------------
(* Concurrent logins: properties *)

\* worker w holds a row it loaded after the lock now stored on u was committed
LoadedTheLock(w, u) ==
    /\ reqs[w].pc # "idle"
    /\ reqs[w].user = u
    /\ reqs[w].row.lock_until = db[u].lock_until

\* C7: when the login requests in flight for an account have all loaded it
\* after its lock was committed and the lock is still active, each of them is
\* rejected without a write and no step changes lock_until: the lock is not
\* extended, shortened or cleared before it expires.
C7_ConcurrentLockedAllRejected ==
    /\ [][\A w \in Workers, u \in DOMAIN db :
            ( /\ LockIsActive(u)
              /\ LoadedTheLock(w, u)
              /\ reqs'[w] # reqs[w] )
                => (reqs'[w] = IdleRequest("locked") /\ db' = db)]_vars
    /\ [][\A u \in DOMAIN db :
            ( /\ LockIsActive(u)
              /\ \A w \in Workers :
                    (reqs[w].pc # "idle" /\ reqs[w].user = u) => LoadedTheLock(w, u) )
                => db'[u].lock_until = db[u].lock_until]_vars

\* two requests in flight during the lock: one already rejected, the other
\* holding the locked row
C7_Witness ==
    \E u \in DOMAIN db, w1, w2 \in Workers :
        /\ w1 # w2
        /\ LockIsActive(u)
        /\ now > db[u].last_failed_at
        /\ LoadedTheLock(w1, u) /\ reqs[w1].pc = "loaded"
        /\ reqs[w2] = IdleRequest("locked")

----------------------------------------------------------------------------
(* Roster import: properties *)

\* the signed-in user may run the handler
MayImport(handler) ==
    /\ current_user \in DOMAIN db
    /\ handler = "admin_students_import" => db[current_user].role = "admin"

\* h is the trimmed text of no cell of the first row
HeaderLacks(sheet, h) ==
    \A k \in DOMAIN sheet.header :
        sheet.header[k].null \/ Strip(sheet.header[k].text) # h

\* the data row the loop is at
CurrentFields == row_fields(imp.sheet.rows[imp.i], imp.cols)

\* a turn of the loop that went on to the next row
RowTurn == imp.pc = "rows" /\ imp'.pc = "rows" /\ imp'.i = imp.i + 1

SkipOutcome ==
    /\ RowTurn
    /\ imp'.skipped = imp.skipped + 1
    /\ imp'.added = imp.added
    /\ imp'.session = imp.session
    /\ db' = db

\* C8: in both imports an upload whose first row lacks one of the six header
\* names fails as a whole (no data row is processed, no account is created or
\* modified), and an upload whose first row holds the six names in any order
\* goes on to its data rows.
C8_MissingHeaderFailsWhole ==
    [][(imp.pc = "idle" /\ served' = served + 1)
          => \A handler \in ImportHandlers :
               (/\ MayImport(handler)
                /\ IF imp'.pc = "rows" THEN imp'.handler = handler
                                       ELSE resp'.handler = handler)
               => \A sheet \in Sheets :
                    (/\ imp'.pc = "rows" => imp'.sheet = sheet
                     /\ students_import_open(handler, sheet))
                    => IF \E h \in Range(EXPORT_HEADERS) : HeaderLacks(sheet, h)
                       THEN /\ resp'.status = "missing_columns"
                            /\ imp' = NoImport
                            /\ db' = db
                       ELSE /\ imp'.pc = "rows"
                            /\ imp'.sheet = sheet
                            /\ imp'.i = 1 /\ imp'.added = 0 /\ imp'.skipped = 0]_vars

\* an upload without the Email column was refused while students were on file
C8_Witness ==
    /\ resp.status = "missing_columns"
    /\ resp.handler = "students_import"
    /\ imp = NoImport
    /\ Cardinality(DOMAIN db) > 1

\* C9: a data row is skipped (skipped + 1, added unchanged, no account created
\* or modified) exactly when its trimmed identifier, name or email is empty or
\* its identifier holds a character outside A-Z a-z 0-9 _ -, and after a
\* skipped row the loop goes on to the next row.
C9_RowSkippedIff ==
    [][(imp.pc = "rows" /\ imp.i <= Len(imp.sheet.rows) /\ imp' # imp)
          => LET f == CurrentFields
                 invalid == \/ Len(f.ma_sv) = 0 \/ Len(f.ten_sv) = 0 \/ Len(f.email) = 0
                            \/ \E k \in DOMAIN f.ma_sv :
                                  f.ma_sv[k] \notin Range(UpperCase) \cup Range(LowerCase) \cup Digits \cup {"_", "-"}
             IN  invalid <=> SkipOutcome]_vars

\* the first row, its identifier holding a space, was skipped and the second added
C9_Witness ==
    /\ imp.pc = "rows"
    /\ imp.i = 3
    /\ " " \in Range(row_fields(imp.sheet.rows[1], imp.cols).ma_sv)
    /\ imp.skipped = 1
    /\ imp.added = 1

\* C10: for a row that is not skipped, both imports take the account with the
\* row's identifier, else the account with the row's lower-cased email, else a
\* new account; accounts here are those on file and those of earlier rows.
C10_ResolutionOrder ==
    [][(RowTurn /\ imp'.skipped = imp.skipped)
          => LET f == CurrentFields
                 accounts == imp.session
                 sameId == {a \in DOMAIN accounts : accounts[a].ma_sv = f.ma_sv}
                 sameEmail == {a \in DOMAIN accounts : accounts[a].email = f.email}
             IN  IF sameId # {} THEN imp'.sv \in sameId
                 ELSE IF sameEmail # {} THEN imp'.sv \in sameEmail
                 ELSE imp'.sv \notin DOMAIN accounts]_vars

\* the row the loop is at passes the validity tests of the loop
RowIsValid ==
    LET f == CurrentFields
    IN  /\ Len(f.ma_sv) > 0 /\ Len(f.ten_sv) > 0 /\ Len(f.email) > 0
        /\ \A k \in DOMAIN f.ma_sv : IsMaSvChar(f.ma_sv[k])

\* C11: a valid row whose identifier is that of an existing account updates
\* that account in place: the set of account ids stays the same, the account
\* written is the one that had the identifier, under the id it had, every
\* other account is left alone, and added is not incremented.
C11_SameIdentifierUpdatesInPlace ==
    [][(/\ RowTurn
        /\ RowIsValid
        /\ \E a \in DOMAIN imp.session : imp.session[a].ma_sv = CurrentFields.ma_sv)
          => LET f == CurrentFields
                 a == imp'.sv
             IN  /\ DOMAIN imp'.session = DOMAIN imp.session
                 /\ imp'.added = imp.added
                 /\ a \in DOMAIN imp.session
                 /\ imp.session[a].ma_sv = f.ma_sv
                 /\ imp'.session[a].ma_sv = f.ma_sv
                 /\ imp'.session[a].ten_sv = f.ten_sv
                 /\ imp'.session[a].email = f.email
                 /\ \A b \in DOMAIN imp.session \ {a} : imp'.session[b] = imp.session[b]]_vars

\* a student on file was given another name and email by a row with its identifier
C11_Witness ==
    /\ imp.pc = "rows"
    /\ imp.i = 2
    /\ imp.added = 0
    /\ imp.skipped = 0
    /\ imp.sv \in DOMAIN db \ {SEED_ID}
    /\ DOMAIN imp.session = DOMAIN db
    /\ imp.session[imp.sv].ma_sv = db[imp.sv].ma_sv
    /\ imp.session[imp.sv].email # db[imp.sv].email

\* the import in progress ends with its batch committed
ImportCommitted ==
    imp.pc = "rows" /\ imp'.pc = "idle" /\ resp'.status = "imported"

\* row j is the last row of the sheet that was bound to the account it was bound to
LastRowOfItsAccount(j) ==
    /\ imp.targets[j] # Anonymous
    /\ \A k \in DOMAIN imp.targets : k > j => imp.targets[k] # imp.targets[j]

\* the hashes a row's password cell may give
RowHashes(f) ==
    IF Len(f.mat_khau_plain) > 0 THEN {generate_password_hash(f.mat_khau_plain)}
    ELSE {generate_password_hash(p) : p \in RandomPasswords}

\* C12: after a successful admin_students_import every account a row was
\* bound to holds the identifier, name, lower-cased email, password hash,
\* gender and address of the last row bound to it and has role student,
\* whatever its role was before.
C12_ImportOverwritesAndForcesStudent ==
    [][(ImportCommitted /\ imp.handler = "admin_students_import")
          => \A j \in DOMAIN imp.targets :
                LastRowOfItsAccount(j)
                => LET a == imp.targets[j]
                       row == imp.sheet.rows[j]
                       cell(h) == row[CHOOSE k \in DOMAIN imp.sheet.header :
                                         ~imp.sheet.header[k].null
                                         /\ Strip(imp.sheet.header[k].text) = h]
                       text(h) == IF cell(h).null THEN <<>> ELSE Strip(cell(h).text)
                   IN  /\ a \in DOMAIN db'
                       /\ db'[a].ma_sv = text(H_MA_SV)
                       /\ db'[a].ten_sv = text(H_TEN)
                       /\ db'[a].email = Lower(text(H_EMAIL))
                       /\ db'[a].mat_khau \in RowHashes(row_fields(row, imp.cols))
                       /\ db'[a].gioi_tinh = text(H_GIOI_TINH)
                       /\ db'[a].dia_chi = text(H_DIA_CHI)
                       /\ db'[a].role = "student"]_vars

\* the seeded admin, matched by its email, now is the student SV4
C12_Witness ==
    /\ resp.status = "imported"
    /\ resp.handler = "admin_students_import"
    /\ resp.added = 0
    /\ db[SEED_ID].ma_sv = SV4
    /\ db[SEED_ID].email = ADMIN_EMAIL
    /\ db[SEED_ID].role = "student"

\* C13: an import that runs into a uniqueness collision on identifier or
\* email, while a row is flushed or at the final commit, leaves the account
\* store as it was before the import and ends with the reported import
\* failure, not with an unhandled error.
C13_CollisionRollsBackAndReports ==
    [][(imp.pc = "rows" /\ imp'.pc = "idle" /\ ~is_unique(imp.session))
          => /\ db' = db
             /\ resp'.status = "import_failed"]_vars

----------------------------------------------------------------------------
(* Accounts: registration, the admin and the older /students forms, the       *)
(* profile form and the export.  A form is the six submitted fields as text.  *)

MaxOps == 2
MIN_PASSWORD == 6

GENDERS == {<<"N","a","m">>, <<"N","u">>, <<"K","h","a","c">>}

Form(ma_sv, ten_sv, email, mat_khau, gioi_tinh, dia_chi) ==
    [ ma_sv |-> ma_sv, ten_sv |-> ten_sv, email |-> email, mat_khau |-> mat_khau,
      gioi_tinh |-> gioi_tinh, dia_chi |-> dia_chi ]

Count(s, c) == Cardinality({i \in DOMAIN s : s[i] = c})

\* wtforms Email(): one "@", something before it, a dotted domain after it, no blank
IsEmail(s) ==
    /\ Count(s, "@") = 1
    /\ \A i \in DOMAIN s : ~IsSpace(s[i])
    /\ LET at == CHOOSE i \in DOMAIN s : s[i] = "@"
       IN  /\ at > 1
           /\ at + 1 < Len(s)
           /\ s[at + 1] # "."
           /\ s[Len(s)] # "."
           /\ \E i \in (at + 2)..(Len(s) - 1) : s[i] = "."

\* the accounts other than editing_id that a query by ma_sv / by email finds
others_by_ma_sv(table, ma_sv, editing_id) == by_ma_sv(table, ma_sv) \ {editing_id}

others_by_email(table, email, editing_id) == by_email(table, email) \ {editing_id}

StudentForm_validate_no_ma_sv_pattern(table, form, editing_id, password_required) ==
    /\ DataRequired(form.ma_sv)
    /\ others_by_ma_sv(table, Strip(form.ma_sv), editing_id) = {}
    /\ DataRequired(form.ten_sv)
    /\ DataRequired(form.email)
    /\ IsEmail(form.email)
    /\ others_by_email(table, Lower(Strip(form.email)), editing_id) = {}

\* StudentForm.validate_on_submit(); editing_id is Anonymous on the create forms
StudentForm_validate(table, form, editing_id, password_required) ==
    /\ DataRequired(form.ma_sv)
    /\ FullMatchMaSv(Strip(form.ma_sv))
    /\ others_by_ma_sv(table, Strip(form.ma_sv), editing_id) = {}
    /\ DataRequired(form.ten_sv)
    /\ DataRequired(form.email)
    /\ IsEmail(form.email)
    /\ others_by_email(table, Lower(Strip(form.email)), editing_id) = {}
    /\ IF password_required
       THEN DataRequired(form.mat_khau) /\ Len(form.mat_khau) >= MIN_PASSWORD
       ELSE Strip(form.mat_khau) = <<>> \/ Len(form.mat_khau) >= MIN_PASSWORD
    /\ form.gioi_tinh \in GENDERS \cup {<<>>}

\* the table with account a added or replaced
put(table, a, sv) == [b \in DOMAIN table \cup {a} |-> IF b = a THEN sv ELSE table[b]]

\* common end of a form handler: commit, or roll back on IntegrityError
commit_or_rollback(handler, table) ==
    IF is_unique(table)
    THEN /\ db' = table
         /\ resp' = Response(handler, "saved", current_user, NoRow)
    ELSE /\ UNCHANGED db
         /\ resp' = Response(handler, "duplicate", current_user, NoRow)

\* app.py register
register(form) ==
    /\ imp.pc = "idle"
    /\ ops < MaxOps
    /\ ops' = ops + 1
    /\ UNCHANGED <<now, current_user, attempts, reqs, served, grades, imp>>
    /\ IF is_authenticated
       THEN /\ resp' = Response("register", "redirect_home", current_user, NoRow)
            /\ UNCHANGED db
       ELSE IF ~StudentForm_validate(db, form, Anonymous, TRUE)
       THEN /\ resp' = Response("register", "form_invalid", current_user, NoRow)
            /\ UNCHANGED db
       ELSE commit_or_rollback("register",
                put(db, new_id(db),
                    Student(Strip(form.ma_sv), Strip(form.ten_sv),
                            Lower(Strip(form.email)),
                            generate_password_hash(form.mat_khau),
                            form.gioi_tinh, Strip(form.dia_chi), "student")))

\* app.py students_create: @login_required only
students_create(form) ==
    /\ imp.pc = "idle"
    /\ ops < MaxOps
    /\ ops' = ops + 1
    /\ UNCHANGED <<now, current_user, attempts, reqs, served, grades, imp>>
    /\ IF ~is_authenticated
       THEN /\ resp' = Response("students_create", "redirect_login", current_user, NoRow)
            /\ UNCHANGED db
       ELSE IF ~StudentForm_validate(db, form, Anonymous, TRUE)
       THEN /\ resp' = Response("students_create", "form_invalid", current_user, NoRow)
            /\ UNCHANGED db
       ELSE commit_or_rollback("students_create",
                put(db, new_id(db),
                    Student(Strip(form.ma_sv), Strip(form.ten_sv),
                            Lower(Strip(form.email)),
                            generate_password_hash(form.mat_khau),
                            form.gioi_tinh, Strip(form.dia_chi), "student")))

\* app.py students_edit: @login_required only
students_edit(student_id, form) ==
    /\ imp.pc = "idle"
    /\ ops < MaxOps
    /\ ops' = ops + 1
    /\ UNCHANGED <<now, current_user, attempts, reqs, served, grades, imp>>
    /\ IF ~is_authenticated
       THEN /\ resp' = Response("students_edit", "redirect_login", current_user, NoRow)
            /\ UNCHANGED db
       ELSE IF student_id \notin DOMAIN db
       THEN /\ resp' = Response("students_edit", "not_found_404", current_user, NoRow)
            /\ UNCHANGED db
       ELSE IF ~StudentForm_validate(db, form, student_id, FALSE)
       THEN /\ resp' = Response("students_edit", "form_invalid", current_user, NoRow)
            /\ UNCHANGED db
       ELSE commit_or_rollback("students_edit",
                put(db, student_id,
                    [db[student_id] EXCEPT
                        !.ma_sv = Strip(form.ma_sv),
                        !.ten_sv = Strip(form.ten_sv),
                        !.email = Lower(Strip(form.email)),
                        !.gioi_tinh = form.gioi_tinh,
                        !.dia_chi = Strip(form.dia_chi),
                        !.mat_khau = IF form.mat_khau # <<>>
                                     THEN generate_password_hash(form.mat_khau)
                                     ELSE @]))

\* what keeps a request out of an admin route: @login_required, @roles_required("admin")
admin_gate ==
    IF ~is_authenticated THEN "redirect_login"
    ELSE IF db[current_user].role # "admin" THEN "forbidden_403"
    ELSE "pass"

\* commit with no handler for IntegrityError
commit_or_error(handler, table) ==
    IF is_unique(table)
    THEN /\ db' = table
         /\ resp' = Response(handler, "saved", current_user, NoRow)
    ELSE /\ UNCHANGED db
         /\ resp' = Response(handler, "error_500", current_user, NoRow)

\* the tests of the admin student form on the trimmed fields
admin_form_ok(table, form, editing_id, password_required) ==
    /\ Strip(form.ma_sv) # <<>>
    /\ Strip(form.ten_sv) # <<>>
    /\ Strip(form.email) # <<>>
    /\ password_required => Strip(form.mat_khau) # <<>>
    /\ FullMatchMaSv(Strip(form.ma_sv))
    /\ others_by_ma_sv(table, Strip(form.ma_sv), editing_id) = {}
    /\ others_by_email(table, Lower(Strip(form.email)), editing_id) = {}

\* admin_routes.py admin_students_create
admin_students_create(form) ==
    /\ imp.pc = "idle"
    /\ ops < MaxOps
    /\ ops' = ops + 1
    /\ UNCHANGED <<now, current_user, attempts, reqs, served, grades, imp>>
    /\ IF admin_gate # "pass"
       THEN /\ resp' = Response("admin_students_create", admin_gate, current_user, NoRow)
            /\ UNCHANGED db
       ELSE IF ~admin_form_ok(db, form, Anonymous, TRUE)
       THEN /\ resp' = Response("admin_students_create", "form_invalid", current_user, NoRow)
            /\ UNCHANGED db
       ELSE commit_or_error("admin_students_create",
                put(db, new_id(db),
                    Student(Strip(form.ma_sv), Strip(form.ten_sv),
                            Lower(Strip(form.email)),
                            generate_password_hash(Strip(form.mat_khau)),
                            Strip(form.gioi_tinh), Strip(form.dia_chi), "student")))

\* admin_routes.py admin_students_edit
admin_students_edit(student_id, form) ==
    /\ imp.pc = "idle"
    /\ ops < MaxOps
    /\ ops' = ops + 1
    /\ UNCHANGED <<now, current_user, attempts, reqs, served, grades, imp>>
    /\ IF admin_gate # "pass"
       THEN /\ resp' = Response("admin_students_edit", admin_gate, current_user, NoRow)
            /\ UNCHANGED db
       ELSE IF student_id \notin DOMAIN db
       THEN /\ resp' = Response("admin_students_edit", "not_found_404", current_user, NoRow)
            /\ UNCHANGED db
       ELSE IF ~admin_form_ok(db, form, student_id, FALSE)
       THEN /\ resp' = Response("admin_students_edit", "form_invalid", current_user, NoRow)
            /\ UNCHANGED db
       ELSE commit_or_error("admin_students_edit",
                put(db, student_id,
                    [db[student_id] EXCEPT
                        !.ma_sv = Strip(form.ma_sv),
                        !.ten_sv = Strip(form.ten_sv),
                        !.email = Lower(Strip(form.email)),
                        !.gioi_tinh = Strip(form.gioi_tinh),
                        !.dia_chi = Strip(form.dia_chi),
                        !.mat_khau = IF Strip(form.mat_khau) # <<>>
                                     THEN generate_password_hash(Strip(form.mat_khau))
                                     ELSE @]))

\* email = (request.form.get("email") or "").strip()
profile_email(form) == Strip(form.email)

\* account_routes.py profile: the signed-in user's own name, email, gender, address
profile(form) ==
    /\ imp.pc = "idle"
    /\ ops < MaxOps
    /\ ops' = ops + 1
    /\ UNCHANGED <<now, current_user, attempts, reqs, served, grades, imp>>
    /\ IF ~is_authenticated
       THEN /\ resp' = Response("profile", "redirect_login", current_user, NoRow)
            /\ UNCHANGED db
       ELSE IF \/ Strip(form.ten_sv) = <<>>
               \/ profile_email(form) = <<>>
               \/ others_by_email(db, profile_email(form), current_user) # {}
       THEN /\ resp' = Response("profile", "form_invalid", current_user, NoRow)
            /\ UNCHANGED db
       ELSE commit_or_error("profile",
                put(db, current_user,
                    [db[current_user] EXCEPT
                        !.ten_sv = Strip(form.ten_sv),
                        !.email = profile_email(form),
                        !.gioi_tinh = Strip(form.gioi_tinh),
                        !.dia_chi = Strip(form.dia_chi)]))

\* the ids of a set in ascending order: order_by(Student.id.asc())
Ascending(ids) ==
    CHOOSE s \in [1..Cardinality(ids) -> ids] :
        \A i, j \in 1..Cardinality(ids) : i < j => s[i] < s[j]

exported_ids_all(handler, table) == DOMAIN table

\* the accounts the export lists: every account (app.py students_export) or
\* those with role student (admin_students_export)
exported_ids(handler, table) ==
    IF handler = "admin_students_export"
    THEN {a \in DOMAIN table : table[a].role = "student"}
    ELSE DOMAIN table

\* ws.append(EXPORT_HEADERS), then per account
\* ws.append([s.ma_sv, s.ten_sv, s.email, new_plain_password, s.gioi_tinh or "", s.dia_chi or ""])
export_sheet(table, ids, passwords) ==
    [ header |-> [k \in 1..6 |-> TextCell(EXPORT_HEADERS[k])],
      rows |-> [j \in 1..Cardinality(ids) |->
                  LET s == table[Ascending(ids)[j]]
                  IN  <<TextCell(s.ma_sv), TextCell(s.ten_sv), TextCell(s.email),
                        TextCell(passwords[Ascending(ids)[j]]),
                        TextCell(s.gioi_tinh), TextCell(s.dia_chi)>>] ]

ExportResponse(handler, sheet) ==
    [handler |-> handler, status |-> "file", user |-> current_user, loaded |-> NoRow,
     sheet |-> sheet]

ExportHandlers == {"admin_students_export", "students_export"}

\* admin_routes.py admin_students_export and app.py students_export
students_export(handler) ==
    /\ imp.pc = "idle"
    /\ UNCHANGED <<now, db, current_user, attempts, reqs, served, ops, grades, imp>>
    /\ IF ~is_authenticated
       THEN resp' = Response(handler, "redirect_login", current_user, NoRow)
       ELSE IF handler = "admin_students_export" /\ db[current_user].role # "admin"
       THEN resp' = Response(handler, "forbidden_403", current_user, NoRow)
       ELSE \E passwords \in [exported_ids(handler, db) -> RandomPasswords] :
               resp' = ExportResponse(handler,
                           export_sheet(db, exported_ids(handler, db), passwords))

----------------------------------------------------------------------------
(* The forms submitted *)

SV1_LOWER_PADDED == <<"s","v","1"," ">>
EMAIL_A_MIXED == <<"A","@","x",".","v","n">>
EMAIL_A_PADDED == <<" ","A","@","X",".","V","N">>
Forms ==
    { Form(ma_sv, <<"L","a","n">>, email, mat_khau, <<>>, <<>>) :
        ma_sv \in {SV1, SV1_LOWER_PADDED, <<"S"," ","V">>},
        email \in {EMAIL_A, EMAIL_A_MIXED, EMAIL_A_PADDED, EMAIL_B},
        mat_khau \in {PASSWORD_1, <<>>} }

\* the ids a form may name: those on file and one more
StudentIds == 1..(MaxId(db) + 1)

\* uploads of one data row under the header row of the export
SmallSheets ==
    {Sheet([k \in 1..6 |-> TextCell(EXPORT_HEADERS[k])], records) :
        records \in [1..1 -> {r \in RowPool : r.ma_sv.text \in {SV1, SV2, <<"S"," ","V">>}}]}

Register == \E form \in Forms : register(form)

StudentsCreate == \E form \in Forms : students_create(form)

StudentsEdit == \E a \in StudentIds, form \in Forms : students_edit(a, form)

AdminStudentsCreate == \E form \in Forms : admin_students_create(form)

AdminStudentsEdit == \E a \in StudentIds, form \in Forms : admin_students_edit(a, form)

Profile == \E form \in Forms : profile(form)

StudentsExport == \E h \in ExportHandlers : students_export(h)

ImportSmall == \E h \in ImportHandlers, sheet \in SmallSheets : students_import_open(h, sheet)

\* the file of the last export is uploaded as it is
ImportExported ==
    /\ resp.status = "file"
    /\ \E h \in ImportHandlers : students_import_open(h, resp.sheet)

NextAccounts ==
    \/ SignIn \/ SignOut
    \/ Register \/ StudentsCreate \/ StudentsEdit
    \/ AdminStudentsCreate \/ AdminStudentsEdit \/ Profile
    \/ StudentsExport \/ ImportSmall \/ ImportExported
    \/ students_import_row \/ students_import_commit

SpecAccounts == Init /\ [][NextAccounts]_vars

----------------------------------------------------------------------------
(* Accounts: properties *)

\* a request with the students export as its answer
ExportStep(handler) ==
    /\ imp.pc = "idle"
    /\ imp'.pc = "idle"
    /\ resp' # resp
    /\ resp'.status = "file"
    /\ resp'.handler = handler

\* C14: admin_students_export gives the six header names and then one row per
\* account with role student and no other, in ascending id order, the row
\* holding the account's identifier, name, email, gender and address and a
\* password of 10 letters and digits; the store is the same after as before.
C14_ExportListsStudentsAndChangesNothing ==
    [][ExportStep("admin_students_export")
          => LET sheet == resp'.sheet
                 students == {a \in DOMAIN db : db[a].role = "student"}
             IN  /\ db' = db
                 /\ Len(sheet.header) = 6
                 /\ \A k \in 1..6 : sheet.header[k] = TextCell(EXPORT_HEADERS[k])
                 /\ Len(sheet.rows) = Cardinality(students)
                 /\ \A j \in DOMAIN sheet.rows :
                       \E a \in students :
                          /\ Cardinality({b \in students : b < a}) = j - 1
                          /\ Len(sheet.rows[j]) = 6
                          /\ sheet.rows[j][1].text = db[a].ma_sv
                          /\ sheet.rows[j][2].text = db[a].ten_sv
                          /\ sheet.rows[j][3].text = db[a].email
                          /\ Len(sheet.rows[j][4].text) = 10
                          /\ \A c \in Range(sheet.rows[j][4].text) :
                                c \in Range(UpperCase) \cup Range(LowerCase) \cup Digits
                          /\ sheet.rows[j][5].text = db[a].gioi_tinh
                          /\ sheet.rows[j][6].text = db[a].dia_chi]_vars

\* an export of two students, the admin on file left out
C14_Witness ==
    /\ resp.status = "file"
    /\ resp.handler = "admin_students_export"
    /\ Len(resp.sheet.rows) = 2
    /\ Cardinality(DOMAIN db) = 3
    /\ db[SEED_ID].role = "admin"
    /\ resp.sheet.rows[1][1].text = db[2].ma_sv
    /\ resp.sheet.rows[2][1].text = db[3].ma_sv

\* the admin import of the file that admin_students_export has just given ends
ExportedFileImportEnds ==
    /\ imp.pc = "rows"
    /\ imp'.pc = "idle"
    /\ imp.handler = "admin_students_import"
    /\ resp.status = "file"
    /\ resp.handler = "admin_students_export"
    /\ imp.sheet = resp.sheet

\* C15: importing the file of admin_students_export as it is, right after the
\* export, adds no account and skips no row, leaves identifier, name, email,
\* gender, address and role of every exported account as they were, and makes
\* the password written in the account's row the one password it accepts.
C15_ExportThenImportReplacesPasswords ==
    [][ExportedFileImportEnds
          => LET students == {a \in DOMAIN db : db[a].role = "student"}
             IN  /\ resp'.status = "imported"
                 /\ resp'.added = 0
                 /\ resp'.skipped = 0
                 /\ DOMAIN db' = DOMAIN db
                 /\ \A j \in DOMAIN imp.sheet.rows :
                       \E a \in students :
                          /\ Cardinality({b \in students : b < a}) = j - 1
                          /\ db'[a].ma_sv = db[a].ma_sv
                          /\ db'[a].ten_sv = db[a].ten_sv
                          /\ db'[a].email = db[a].email
                          /\ db'[a].gioi_tinh = db[a].gioi_tinh
                          /\ db'[a].dia_chi = db[a].dia_chi
                          /\ db'[a].role = db[a].role
                          /\ check_password(db'[a], imp.sheet.rows[j][4].text)
                          /\ \A p \in RandomPasswords \cup {PASSWORD_1, ADMIN_PASSWORD} :
                                check_password(db'[a], p) => p = imp.sheet.rows[j][4].text]_vars

\* C16: in every state reached by registration, the admin and the older
\* /students create and edit forms, the profile form and imports, every
\* account's ma_sv is not empty and holds only letters, digits, "_" and "-",
\* and no two accounts have the same ma_sv.
C16_NaturalKeyUniqueAndWellFormed ==
    /\ \A a \in DOMAIN db :
          /\ Len(db[a].ma_sv) > 0
          /\ \A k \in DOMAIN db[a].ma_sv :
                db[a].ma_sv[k] \in Range(UpperCase) \cup Range(LowerCase) \cup Digits \cup {"_", "-"}
    /\ \A a, b \in DOMAIN db : db[a].ma_sv = db[b].ma_sv => a = b

\* a form was turned down while three accounts were on file, two of them with
\* identifiers that differ in letter case only
C16_Witness ==
    /\ resp.status = "form_invalid"
    /\ Cardinality(DOMAIN db) = 3
    /\ \E a, b \in DOMAIN db : a # b /\ Lower(db[a].ma_sv) = Lower(db[b].ma_sv)

\* C17: in every state reached by registration, the admin forms, imports and
\* the profile form, no two accounts have emails that are equal when letter
\* case is ignored.
C17_EmailUniqueIgnoringCase ==
    \A a, b \in DOMAIN db : Lower(db[a].email) = Lower(db[b].email) => a = b

----------------------------------------------------------------------------
(* Grades: admin_routes.py admin_grade_create / admin_grade_edit and           *)
(* manager_routes.py manager_grade_create / manager_grade_edit.  A score is    *)
(* kept in tenths; the foreign keys of a grade are not enforced by SQLite.     *)

MaxGradeOps == 4
MIN_SCORE == 0
MAX_SCORE == 10

DigitChars == <<"0","1","2","3","4","5","6","7","8","9">>

DigitValue(c) == (CHOOSE k \in 1..10 : DigitChars[k] = c) - 1

\* str.isdigit()
isdigit(s) == s # <<>> /\ \A i \in DOMAIN s : s[i] \in Digits

RECURSIVE parse_int(_)
\* int(s) of a string of digits
parse_int(s) ==
    IF s = <<>> THEN 0
    ELSE parse_int(SubSeq(s, 1, Len(s) - 1)) * 10 + DigitValue(s[Len(s)])

Number(tenths) == [kind |-> "number", tenths |-> tenths]
NaN == [kind |-> "nan", tenths |-> 0]
Infinity(sign) == [kind |-> "inf", tenths |-> sign]
ValueError == [kind |-> "error", tenths |-> 0]

\* float(s) for: a sign, then nan, inf, infinity, digits, or digits "." digit
\* (exponents and longer fractions are not among the texts submitted here)
float(s) ==
    LET signed == s # <<>> /\ Head(s) \in {"+", "-"}
        sign == IF s # <<>> /\ Head(s) = "-" THEN -1 ELSE 1
        body == IF signed THEN Tail(s) ELSE s
    IN  IF Lower(body) = <<"n","a","n">> THEN NaN
        ELSE IF Lower(body) \in {<<"i","n","f">>, <<"i","n","f","i","n","i","t","y">>}
        THEN Infinity(sign)
        ELSE IF isdigit(body) THEN Number(sign * parse_int(body) * 10)
        ELSE IF /\ Len(body) >= 3
                /\ body[Len(body) - 1] = "."
                /\ isdigit(SubSeq(body, 1, Len(body) - 2))
                /\ body[Len(body)] \in Digits
        THEN Number(sign * (parse_int(SubSeq(body, 1, Len(body) - 2)) * 10
                            + DigitValue(body[Len(body)])))
        ELSE ValueError

score_out_of_range_above_only(score) ==
    \/ score.kind = "inf" /\ score.tenths > 0
    \/ score.kind = "number" /\ score.tenths > MAX_SCORE * 10

\* score < 0 or score > 10: both comparisons are False for NaN
score_out_of_range(score) ==
    \/ score.kind = "inf"
    \/ score.kind = "number"
       /\ (score.tenths < MIN_SCORE * 10 \/ score.tenths > MAX_SCORE * 10)

GradeForm(student_id, subject_id, exam_id, score, note) ==
    [student_id |-> student_id, subject_id |-> subject_id, exam_id |-> exam_id,
     score |-> score, note |-> note]

Grade(student_id, subject_id, exam_id, score, note) ==
    [student_id |-> student_id, subject_id |-> subject_id, exam_id |-> exam_id,
     score |-> score, note |-> note]

new_grade_id(table) ==
    IF DOMAIN table = {} THEN 1
    ELSE (CHOOSE m \in DOMAIN table : \A g \in DOMAIN table : g <= m) + 1

grade_exists_never(table, student_id, subject_id, exam_id, except_id) == {}

\* the grades other than except_id with the triple
grade_exists(table, student_id, subject_id, exam_id, except_id) ==
    {g \in DOMAIN table \ {except_id} :
        /\ table[g].student_id = student_id
        /\ table[g].subject_id = subject_id
        /\ table[g].exam_id = exam_id}

\* UniqueConstraint("student_id", "subject_id", "exam_id")
uq_grade(table) ==
    \A g, h \in DOMAIN table :
        (/\ table[g].student_id = table[h].student_id
         /\ table[g].subject_id = table[h].subject_id
         /\ table[g].exam_id = table[h].exam_id) => g = h

\* @login_required, @roles_required(role)
role_gate(role) ==
    IF ~is_authenticated THEN "redirect_login"
    ELSE IF db[current_user].role # role THEN "forbidden_403"
    ELSE "pass"

grade_role(handler) ==
    IF handler \in {"admin_grade_create", "admin_grade_edit"} THEN "admin" ELSE "manager"

\* the tests on the submitted fields, in the order of the handler; "pass" or
\* the reason the form is turned down
grade_form_check(table, form, except_id) ==
    LET score == float(Strip(form.score))
    IN  IF ~(isdigit(form.student_id) /\ isdigit(form.subject_id) /\ isdigit(form.exam_id))
        THEN "bad_ids"
        ELSE IF score.kind = "error" THEN "not_a_number"
        ELSE IF score_out_of_range(score) THEN "out_of_range"
        ELSE IF grade_exists(table, parse_int(form.student_id), parse_int(form.subject_id),
                             parse_int(form.exam_id), except_id) # {}
        THEN "duplicate"
        ELSE "pass"

\* db.session.commit() of the grade g under id: score is NOT NULL and SQLite
\* binds NaN as NULL; no handler for IntegrityError
grade_commit(handler, table, id, form) ==
    LET score == float(Strip(form.score))
        g == Grade(parse_int(form.student_id), parse_int(form.subject_id),
                   parse_int(form.exam_id), score.tenths, Strip(form.note))
        new == [h \in DOMAIN table \cup {id} |-> IF h = id THEN g ELSE table[h]]
    IN  IF score.kind = "nan" \/ ~uq_grade(new)
        THEN /\ UNCHANGED grades
             /\ resp' = Response(handler, "error_500", current_user, NoRow)
        ELSE /\ grades' = new
             /\ resp' = Response(handler, "saved", current_user, NoRow)

GradeCreateHandlers == {"admin_grade_create", "manager_grade_create"}

GradeEditHandlers == {"admin_grade_edit", "manager_grade_edit"}

\* admin_grade_create and manager_grade_create
grade_create(handler, form) ==
    /\ imp.pc = "idle"
    /\ ops < MaxGradeOps
    /\ ops' = ops + 1
    /\ UNCHANGED <<now, db, current_user, attempts, reqs, served, imp>>
    /\ IF role_gate(grade_role(handler)) # "pass"
       THEN /\ resp' = Response(handler, role_gate(grade_role(handler)), current_user, NoRow)
            /\ UNCHANGED grades
       ELSE IF grade_form_check(grades, form, 0) # "pass"
       THEN /\ resp' = Response(handler, grade_form_check(grades, form, 0), current_user, NoRow)
            /\ UNCHANGED grades
       ELSE grade_commit(handler, grades, new_grade_id(grades), form)

\* admin_grade_edit and manager_grade_edit
grade_edit(handler, grade_id, form) ==
    /\ imp.pc = "idle"
    /\ ops < MaxGradeOps
    /\ ops' = ops + 1
    /\ UNCHANGED <<now, db, current_user, attempts, reqs, served, imp>>
    /\ IF role_gate(grade_role(handler)) # "pass"
       THEN /\ resp' = Response(handler, role_gate(grade_role(handler)), current_user, NoRow)
            /\ UNCHANGED grades
       ELSE IF grade_id \notin DOMAIN grades
       THEN /\ resp' = Response(handler, "not_found_404", current_user, NoRow)
            /\ UNCHANGED grades
       ELSE IF grade_form_check(grades, form, grade_id) # "pass"
       THEN /\ resp' = Response(handler, grade_form_check(grades, form, grade_id),
                                current_user, NoRow)
            /\ UNCHANGED grades
       ELSE grade_commit(handler, grades, grade_id, form)

\* admin_routes.py admin_update_role; role is the submitted text
admin_update_role(user_id, role) ==
    /\ imp.pc = "idle"
    /\ UNCHANGED <<now, current_user, attempts, reqs, served, ops, grades, imp>>
    /\ IF admin_gate # "pass"
       THEN /\ resp' = Response("admin_update_role", admin_gate, current_user, NoRow)
            /\ UNCHANGED db
       ELSE IF user_id \notin DOMAIN db
       THEN /\ resp' = Response("admin_update_role", "not_found_404", current_user, NoRow)
            /\ UNCHANGED db
       ELSE IF Strip(role) \notin {<<"a","d","m","i","n">>, <<"m","a","n","a","g","e","r">>,
                                   <<"s","t","u","d","e","n","t">>}
       THEN /\ resp' = Response("admin_update_role", "form_invalid", current_user, NoRow)
            /\ UNCHANGED db
       ELSE /\ db' = [db EXCEPT ![user_id].role =
                         IF Strip(role) = <<"a","d","m","i","n">> THEN "admin"
                         ELSE IF Strip(role) = <<"m","a","n","a","g","e","r">> THEN "manager"
                         ELSE "student"]
            /\ resp' = Response("admin_update_role", "saved", current_user, NoRow)

----------------------------------------------------------------------------
(* The grade forms submitted *)

GradeForms ==
    { GradeForm(student_id, <<"1">>, exam_id, score, <<>>) :
        student_id \in {<<"2">>, <<"x">>},
        exam_id \in {<<"1">>, <<"2">>},
        score \in { <<"7",".","5">>, <<" ","1","0">>, <<"1","1">>, <<"-","1">>,
                    <<"n","a","n">>, <<"a","b","c">> } }

GradeIds == 1..new_grade_id(grades)

RoleTexts == {<<"m","a","n","a","g","e","r"," ">>, <<"s","t","u","d","e","n","t">>, <<"r","o","o","t">>}

\* the one student of this scenario signs up
RegisterOne ==
    register(Form(SV1, <<"L","a","n">>, EMAIL_A, PASSWORD_1, <<>>, <<>>))

AdminUpdateRole == \E a \in StudentIds, role \in RoleTexts : admin_update_role(a, role)

GradeCreate == \E h \in GradeCreateHandlers, form \in GradeForms : grade_create(h, form)

GradeEdit ==
    \E h \in GradeEditHandlers, g \in GradeIds, form \in GradeForms : grade_edit(h, g, form)

NextGrades ==
    SignIn \/ SignOut \/ RegisterOne \/ AdminUpdateRole \/ GradeCreate \/ GradeEdit

SpecGrades == Init /\ [][NextGrades]_vars

----------------------------------------------------------------------------
(* Properties of the grade handlers *)

\* the submitted triple is the triple of a grade other than except_id
TripleTaken(form, except_id) ==
    /\ isdigit(form.student_id) /\ isdigit(form.subject_id) /\ isdigit(form.exam_id)
    /\ \E h \in DOMAIN grades \ {except_id} :
          /\ grades[h].student_id = parse_int(form.student_id)
          /\ grades[h].subject_id = parse_int(form.subject_id)
          /\ grades[h].exam_id = parse_int(form.exam_id)

\* the submitted score is a number between 0 and 10
ScoreInRange(form) ==
    LET score == float(Strip(form.score))
    IN  score.kind = "number" /\ score.tenths >= MIN_SCORE * 10 /\ score.tenths <= MAX_SCORE * 10

\* a step of the grade handler that answered, given the form and the grade id
GradeStep(id, form) ==
    IF resp'.handler \in GradeCreateHandlers
    THEN id = 0 /\ grade_create(resp'.handler, form)
    ELSE id \in DOMAIN grades /\ grade_edit(resp'.handler, id, form)

GradeAnswered == ops' = ops + 1 /\ resp'.handler \in GradeCreateHandlers \cup GradeEditHandlers

\* the forms of the pool whose score is a number between 0 and 10
InRangeForms == {form \in GradeForms : ScoreInRange(form)}

\* C18: no two grades share (student, subject, exam); a create or an edit whose
\* triple is already the triple of another grade stores nothing (stated as: a
\* step that saved or changed the grades carried a free triple), and when its
\* score is a number in range the handler answers with the duplicate message
C18_NoDuplicateTriple ==
    /\ [](\A g, h \in DOMAIN grades :
            (/\ grades[g].student_id = grades[h].student_id
             /\ grades[g].subject_id = grades[h].subject_id
             /\ grades[g].exam_id = grades[h].exam_id) => g = h)
    /\ [][(GradeAnswered /\ (grades' # grades \/ resp'.status = "saved")) =>
            \A id \in {0} \cup DOMAIN grades, form \in GradeForms :
                GradeStep(id, form) => ~TripleTaken(form, id)]_vars
    /\ [][(/\ GradeAnswered
           /\ resp'.status # "duplicate"
           /\ role_gate(grade_role(resp'.handler)) = "pass") =>
            \A id \in {0} \cup DOMAIN grades, form \in InRangeForms :
                TripleTaken(form, id) => ~GradeStep(id, form)]_vars

\* a duplicate was turned down while two grades are stored, one of them edited
C18_Witness ==
    /\ resp.status = "duplicate"
    /\ resp.handler \in GradeEditHandlers
    /\ Cardinality(DOMAIN grades) = 2

----------------------------------------------------------------------------
(* Role-gated routes: @login_required, then @roles_required(...) *)

\* flask_login.login_required with login_manager.login_view = "login": an
\* unauthenticated request is redirected to the login page
login_required ==
    IF is_authenticated THEN "pass" ELSE "redirect_login"

\* auth.py roles_required(*roles)
roles_required(roles) ==
    IF ~is_authenticated THEN "unauthorized_401"
    ELSE IF db[current_user].role \notin roles THEN "forbidden_403"
    ELSE "pass"

\* the two decorators in the order they wrap the handler
route_gate(roles) ==
    IF login_required # "pass" THEN login_required ELSE roles_required(roles)

Blueprints == {"admin", "manager", "student"}

\* the roles named by @roles_required on the routes of a blueprint
blueprint_roles(bp) ==
    IF bp = "admin" THEN {"admin"}
    ELSE IF bp = "manager" THEN {"manager"}
    ELSE {"student", "admin", "manager"}

home_handler(bp) ==
    IF bp = "admin" THEN "admin_home"
    ELSE IF bp = "manager" THEN "manager_home"
    ELSE "student_home"

\* admin_home, manager_home, student_home: the body renders the home page
home(bp) ==
    /\ imp.pc = "idle"
    /\ UNCHANGED <<now, db, current_user, attempts, reqs, served, ops, grades, imp>>
    /\ resp' = Response(home_handler(bp),
                        IF route_gate(blueprint_roles(bp)) # "pass"
                        THEN route_gate(blueprint_roles(bp))
                        ELSE "rendered",
                        current_user, NoRow)

Home == \E bp \in Blueprints : home(bp)

NextGates == SignIn \/ SignOut \/ RegisterOne \/ AdminUpdateRole \/ Home

SpecGates == Init /\ [][NextGates]_vars

\* the requester may enter the routes of the blueprint
Allowed(bp) == is_authenticated /\ db[current_user].role \in blueprint_roles(bp)

\* C20: a request to a role-gated route by an unauthenticated requester or by one
\* whose role is not among the required roles is answered with an error status
\* (401 or 403), is not redirected, and the handler body does not run
C20_GateRejectsOutright ==
    [][\A bp \in Blueprints :
          (home(bp) /\ ~Allowed(bp)) =>
              resp'.status \in {"unauthorized_401", "forbidden_403"}]_vars

----------------------------------------------------------------------------
(* Further properties of the login guard *)

\* the step stored a new lock on account u
LockSet(u) == db'[u].lock_until # NoTime /\ db'[u].lock_until # db[u].lock_until

\* C25: the lockout does not escalate: a lock that is set expires exactly 60
\* seconds after the wrong-password attempt that set it, whatever locks the
\* account had before; a stored lock_until is never more than 60 seconds after
\* last_failed_at; and the three latest wrong-password attempts before a lock
\* were each checked against the password and, when the account had a lock
\* before, each made after that lock had expired
C25_LockoutDoesNotEscalate ==
    /\ [](\A u \in DOMAIN db :
            db[u].lock_until # NoTime =>
                db[u].last_failed_at # NoTime /\ db[u].lock_until - db[u].last_failed_at <= 60)
    /\ [][\A u \in DOMAIN db :
            LockSet(u) =>
                /\ resp'.handler = "login" /\ resp'.status = "wrong_password" /\ resp'.user = u
                /\ db'[u].lock_until = now + 60
                /\ Len(attempts'[u]) = 3
                /\ \A i \in 1..3 :
                      /\ attempts'[u][i].checked
                      /\ db[u].lock_until # NoTime => attempts'[u][i].t >= db[u].lock_until]_vars

\* a second lock on an account, set by the third attempt after the first expired
C25_Witness ==
    \E u \in DOMAIN db :
        /\ resp.handler = "login" /\ resp.status = "wrong_password" /\ resp.user = u
        /\ resp.loaded.lock_until # NoTime
        /\ db[u].lock_until = now + 60
        /\ db[u].lock_until >= resp.loaded.lock_until + 60

\* C28: in every committed state of sequential logins failed_attempts is 0, 1
\* or 2; the wrong-password attempt that finds 2 failures still counting stores
\* 0 and sets the lock
C28_CounterBelowThree ==
    /\ [](\A u \in DOMAIN db : db[u].failed_attempts \in {0, 1, 2})
    /\ [][\A u \in DOMAIN db :
            ( /\ db[u].failed_attempts = 2
              /\ now - db[u].last_failed_at <= 60
              /\ resp'.handler = "login" /\ resp'.status = "wrong_password" /\ resp'.user = u
              /\ db'[u] # db[u] )
                => db'[u].failed_attempts = 0 /\ db'[u].lock_until = now + 60]_vars

\* the third failure was just recorded: the counter it found was 2, it stored 0
C28_Witness ==
    \E u \in DOMAIN db :
        /\ resp.handler = "login" /\ resp.status = "wrong_password" /\ resp.user = u
        /\ resp.loaded.failed_attempts = 2
        /\ db[u].failed_attempts = 0
        /\ db[u].last_failed_at = now
        /\ db[u].lock_until = now + 60

\* C30: with login requests for one account running concurrently no increment
\* of failed_attempts is lost, so that three wrong passwords checked lock the
\* account: every failure a request records on an account that is not locked
\* counts on from the stored counter (from 0 when it went stale), and the one
\* that reaches 3 stores the lock
C30_ConcurrentFailuresAllCounted ==
    [][\A w \in Workers, u \in DOMAIN db :
          ( /\ reqs[w].pc = "record_failed_login"
            /\ reqs[w].user = u
            /\ reqs'[w].pc = "idle"
            /\ ~LockIsActive(u) )
              => LET start == IF /\ db[u].last_failed_at # NoTime
                                 /\ now - db[u].last_failed_at > 60
                              THEN 0 ELSE db[u].failed_attempts
                 IN  IF start + 1 = 3
                     THEN db'[u].lock_until = now + 60 /\ db'[u].failed_attempts = 0
                     ELSE db'[u].failed_attempts = start + 1]_vars

----------------------------------------------------------------------------
(* Roster import: the counts reported *)

\* the fields the import reads from data row j of the sheet being imported
FieldsOfRow(j) == row_fields(imp.sheet.rows[j], imp.cols)

\* row j has all three required values and an identifier and an email no
\* account holds
RowIsWhollyNew(j) ==
    /\ FieldsOfRow(j).ten_sv # <<>> /\ FieldsOfRow(j).email # <<>>
    /\ FieldsOfRow(j).ma_sv # <<>>
    /\ \A i \in DOMAIN FieldsOfRow(j).ma_sv :
          FieldsOfRow(j).ma_sv[i] \in Range(UpperCase) \cup Range(LowerCase) \cup Digits \cup {"_", "-"}
    /\ \A a \in DOMAIN db :
          db[a].ma_sv # FieldsOfRow(j).ma_sv /\ db[a].email # FieldsOfRow(j).email

\* row j has an identifier with a character outside letters, digits, _ and -
RowHasBadIdentifier(j) ==
    \E i \in DOMAIN FieldsOfRow(j).ma_sv :
        FieldsOfRow(j).ma_sv[i] \notin Range(UpperCase) \cup Range(LowerCase) \cup Digits \cup {"_", "-"}

ImportEnds == imp.pc = "rows" /\ imp'.pc = "idle"

\* C26: a successful import leaves as many accounts as before plus added, and
\* added + skipped is at most the number of data rows; a sheet of one wholly
\* new valid row and one row with an invalid identifier is imported with
\* added = 1, skipped = 1 and one account more
C26_ImportCounts ==
    /\ [][(ImportEnds /\ resp'.status = "imported") =>
            /\ Cardinality(DOMAIN db') = Cardinality(DOMAIN db) + resp'.added
            /\ resp'.added + resp'.skipped <= Len(imp.sheet.rows)]_vars
    /\ [][(/\ ImportEnds
           /\ Len(imp.sheet.rows) = 2
           /\ \E j, k \in 1..2 : j # k /\ RowIsWhollyNew(j) /\ RowHasBadIdentifier(k)) =>
            /\ resp'.status = "imported"
            /\ resp'.added = 1 /\ resp'.skipped = 1
            /\ Cardinality(DOMAIN db') = Cardinality(DOMAIN db) + 1]_vars

\* the import of the example has just ended
C26_Witness ==
    /\ resp.status = "imported"
    /\ resp.added = 1 /\ resp.skipped = 1
    /\ Cardinality(DOMAIN db) = 2
    /\ \E a \in DOMAIN db : db[a].ma_sv = SV1 /\ db[a].email = EMAIL_A

----------------------------------------------------------------------------
(* Deleting an account: app.py students_delete and admin_routes.py              *)
(* admin_students_delete.  No handler creates a notification, so the           *)
(* notifications table stays empty and the grades are the only dependent rows. *)

DeleteHandlers == {"students_delete", "admin_students_delete"}

\* @login_required for both, @roles_required("admin") for the admin blueprint only
delete_gate(handler) ==
    IF handler = "admin_students_delete" THEN route_gate({"admin"}) ELSE login_required

\* Student.grades, the backref of Grade.student: the grades of the account
student_grades(table, student_id) ==
    {g \in DOMAIN table : table[g].student_id = student_id}

\* the flush of db.session.delete(sv): the backref has no delete cascade, so the
\* grades of sv are first updated to student_id = NULL; the column is NOT NULL
\* and the flush raises IntegrityError when there is such a grade
delete_raises(table, student_id) == student_grades(table, student_id) # {}

students_delete(handler, student_id) ==
    /\ imp.pc = "idle"
    /\ UNCHANGED <<now, current_user, attempts, reqs, served, ops, imp>>
    /\ IF delete_gate(handler) # "pass"
       THEN /\ resp' = Response(handler, delete_gate(handler), current_user, NoRow)
            /\ UNCHANGED <<db, grades>>
       ELSE IF student_id \notin DOMAIN db
       THEN /\ resp' = Response(handler, "not_found_404", current_user, NoRow)
            /\ UNCHANGED <<db, grades>>
       ELSE IF delete_raises(grades, student_id)
       THEN \* no handler for the exception
            /\ resp' = Response(handler, "error_500", current_user, NoRow)
            /\ UNCHANGED <<db, grades>>
       ELSE /\ db' = [a \in DOMAIN db \ {student_id} |-> db[a]]
            /\ UNCHANGED grades
            /\ resp' = Response(handler, "deleted", current_user, NoRow)

StudentsDelete == \E h \in DeleteHandlers, a \in StudentIds : students_delete(h, a)

NextDelete ==
    SignIn \/ SignOut \/ RegisterOne \/ AdminUpdateRole \/ GradeCreate \/ StudentsDelete

SpecDelete == Init /\ [][NextDelete]_vars

\* C21: an account is removed only by a request of a signed-in admin
C21_OnlyAdminDeletes ==
    [][\A a \in DOMAIN db :
          a \notin DOMAIN db' => (is_authenticated /\ db[current_user].role = "admin")]_vars

\* C22: deleting an account that has grades succeeds and removes them with it:
\* afterwards the account is gone and no grade has it as its student
C22_DeleteCascades ==
    [][\A a \in DOMAIN db :
          ( /\ resp'.handler \in DeleteHandlers
            /\ \E h \in DeleteHandlers : students_delete(h, a)
            /\ resp'.status \notin {"redirect_login", "forbidden_403"}
            /\ \E g \in DOMAIN grades : grades[g].student_id = a )
              => /\ a \notin DOMAIN db'
                 /\ \A g \in DOMAIN grades' : grades'[g].student_id # a]_vars

----------------------------------------------------------------------------
(* Roles: app.py make_admin, a route with no decorator *)

\* GET /make-admin/<email>: Student.query.filter_by(email=email).first()
make_admin(email) ==
    /\ imp.pc = "idle"
    /\ UNCHANGED <<now, current_user, attempts, reqs, served, ops, grades, imp>>
    /\ IF by_email(db, email) = {}
       THEN /\ resp' = Response("make_admin", "not_found", current_user, NoRow)
            /\ UNCHANGED db
       ELSE \E u \in by_email(db, email) :
              /\ db' = [db EXCEPT ![u].role = "admin"]
              /\ resp' = Response("make_admin", "ok", current_user, NoRow)

MakeAdmin == \E email \in {EMAIL_A, EMAIL_A_MIXED, ADMIN_EMAIL} : make_admin(email)

NextRoles == SignIn \/ SignOut \/ RegisterOne \/ AdminUpdateRole \/ Home \/ MakeAdmin

SpecRoles == Init /\ [][NextRoles]_vars

\* C27: the role of an account changes, and an account becomes admin, only
\* through a request of a signed-in admin
C27_OnlyAdminChangesRoles ==
    [][\A a \in DOMAIN db \cap DOMAIN db' :
          db'[a].role # db[a].role => (is_authenticated /\ db[current_user].role = "admin")]_vars

----------------------------------------------------------------------------
(* account_routes.py change_password *)

\* the methods class Student defines or inherits (models.py, UserMixin)
StudentMethods == {"get_id", "check_password", "is_authenticated", "is_active", "is_anonymous"}

PasswordForm(old_password, new_password, confirm_password) ==
    [old_password |-> old_password, new_password |-> new_password,
     confirm_password |-> confirm_password]

change_password(form) ==
    /\ imp.pc = "idle"
    /\ UNCHANGED <<now, current_user, attempts, reqs, served, ops, grades, imp>>
    /\ LET old_password == Strip(form.old_password)
           new_password == Strip(form.new_password)
           confirm_password == Strip(form.confirm_password)
       IN  IF login_required # "pass"
           THEN /\ resp' = Response("change_password", login_required, current_user, NoRow)
                /\ UNCHANGED db
           ELSE IF old_password = <<>> \/ new_password = <<>> \/ confirm_password = <<>>
           THEN /\ resp' = Response("change_password", "form_invalid", current_user, NoRow)
                /\ UNCHANGED db
           ELSE IF ~check_password(db[current_user], old_password)
           THEN /\ resp' = Response("change_password", "wrong_old_password", current_user, NoRow)
                /\ UNCHANGED db
           ELSE IF Len(new_password) < MIN_PASSWORD
           THEN /\ resp' = Response("change_password", "too_short", current_user, NoRow)
                /\ UNCHANGED db
           ELSE IF new_password # confirm_password
           THEN /\ resp' = Response("change_password", "mismatch", current_user, NoRow)
                /\ UNCHANGED db
           ELSE IF "set_password" \notin StudentMethods
           THEN \* current_user.set_password(...): AttributeError, not caught
                /\ resp' = Response("change_password", "error_500", current_user, NoRow)
                /\ UNCHANGED db
           ELSE /\ db' = [db EXCEPT ![current_user].mat_khau =
                                        generate_password_hash(new_password)]
                /\ resp' = Response("change_password", "saved", current_user, NoRow)

NEW_PASSWORD == <<"n","e","w","p","a","s","s">>

PasswordForms ==
    { PasswordForm(old, new, confirm) :
        old \in {PASSWORD_1, ADMIN_PASSWORD \o <<" ">>, <<" ">>},
        new \in {NEW_PASSWORD, <<"a","b","c","d","e">>},
        confirm \in {NEW_PASSWORD, <<"a","b","c","d","e">>} }

ChangePassword == \E form \in PasswordForms : change_password(form)

NextPassword == SignIn \/ SignOut \/ RegisterOne \/ AdminUpdateRole \/ Home \/ ChangePassword

SpecPassword == Init /\ [][NextPassword]_vars

\* the form carries the right current password, a new password of at least 6
\* characters and the same as confirmation
PasswordFormIsGood(form) ==
    /\ db[current_user].mat_khau = generate_password_hash(Strip(form.old_password))
    /\ Len(Strip(form.new_password)) >= 6
    /\ Strip(form.new_password) = Strip(form.confirm_password)

\* C23: a change-password request of a signed-in user with the right current
\* password, a new password of at least 6 characters and a matching
\* confirmation ends without error and stores the hash of the new password;
\* any other request leaves the hash as it was
C23_ChangePasswordReplacesHash ==
    [][\A form \in PasswordForms :
          (is_authenticated /\ change_password(form)) =>
              IF PasswordFormIsGood(form)
              THEN /\ resp'.status = "saved"
                   /\ db'[current_user].mat_khau = generate_password_hash(Strip(form.new_password))
              ELSE db'[current_user].mat_khau = db[current_user].mat_khau]_vars

----------------------------------------------------------------------------
(* Forgotten passwords: app.py forgot and reset_password *)

\* a reset token: the email serializer.dumps signed, or a string that does not verify
ResetToken(email) == [valid |-> TRUE, email |-> email]

BadToken == [valid |-> FALSE, email |-> <<>>]

\* verify_reset_token: the stripped, lower-cased email, or None (the empty text)
verify_reset_token(token) ==
    IF token.valid THEN Lower(Strip(token.email)) ELSE <<>>

\* POST /forgot; the new password or the link goes out by mail or is shown
forgot(email_field, method) ==
    /\ imp.pc = "idle"
    /\ ops < MaxOps
    /\ ops' = ops + 1
    /\ UNCHANGED <<now, current_user, attempts, reqs, served, grades, imp>>
    /\ LET email == Lower(Strip(email_field))
       IN  IF ~DataRequired(email_field) \/ ~IsEmail(email_field)
              \/ method \notin {"newpass", "link"}
           THEN /\ resp' = Response("forgot", "form_invalid", current_user, NoRow)
                /\ UNCHANGED db
           ELSE IF by_email(db, email) = {}
           THEN /\ resp' = Response("forgot", "no_user", current_user, NoRow)
                /\ UNCHANGED db
           ELSE IF method = "newpass"
           THEN \E u \in by_email(db, email), new_pass \in RandomPasswords :
                  /\ db' = [db EXCEPT ![u].mat_khau = generate_password_hash(new_pass)]
                  /\ resp' = Response("forgot", "new_password", u, NoRow)
           ELSE /\ resp' = Response("forgot", "reset_link", current_user, NoRow)
                /\ UNCHANGED db

reset_password_unlocks(token, password) ==
    /\ imp.pc = "idle"
    /\ ops < MaxOps
    /\ ops' = ops + 1
    /\ UNCHANGED <<now, current_user, attempts, reqs, served, grades, imp>>
    /\ LET email == verify_reset_token(token)
       IN  IF email = <<>> \/ by_email(db, email) = {}
              \/ ~DataRequired(password) \/ Len(password) < MIN_PASSWORD
           THEN /\ resp' = Response("reset_password", "form_invalid", current_user, NoRow)
                /\ UNCHANGED db
           ELSE \E u \in by_email(db, email) :
                  /\ db' = [db EXCEPT ![u] =
                               clear_failed_login([@ EXCEPT !.mat_khau =
                                                       generate_password_hash(password)])]
                  /\ resp' = Response("reset_password", "saved", u, NoRow)

\* POST /reset/<token>
reset_password(token, password) ==
    /\ imp.pc = "idle"
    /\ ops < MaxOps
    /\ ops' = ops + 1
    /\ UNCHANGED <<now, current_user, attempts, reqs, served, grades, imp>>
    /\ LET email == verify_reset_token(token)
       IN  IF email = <<>>
           THEN /\ resp' = Response("reset_password", "bad_token", current_user, NoRow)
                /\ UNCHANGED db
           ELSE IF by_email(db, email) = {}
           THEN /\ resp' = Response("reset_password", "no_user", current_user, NoRow)
                /\ UNCHANGED db
           ELSE IF ~DataRequired(password) \/ Len(password) < MIN_PASSWORD
           THEN /\ resp' = Response("reset_password", "form_invalid", current_user, NoRow)
                /\ UNCHANGED db
           ELSE \E u \in by_email(db, email) :
                  /\ db' = [db EXCEPT ![u].mat_khau = generate_password_hash(password)]
                  /\ resp' = Response("reset_password", "saved", u, NoRow)

----------------------------------------------------------------------------
(* The lockout columns and the operations beside login *)

WRONG_PASSWORD == <<"6","5","4","3","2","1">>

FrameLogin ==
    /\ imp.pc = "idle"
    /\ \E i \in {ADMIN_MA_SV, EMAIL_A_MIXED, <<"n","o","b","o","d","y">>},
          p \in {ADMIN_PASSWORD, WRONG_PASSWORD} : login(i, p)

FrameForms == {Form(SV2, <<"L","a","n">>, EMAIL_B, NEW_PASSWORD, <<>>, <<>>)}

FrameSheets == {sheet \in SmallSheets : sheet.rows[1][1].text = SV1}

Forgot == \E email \in {ADMIN_EMAIL, EMAIL_A_MIXED}, method \in {"newpass", "link"} :
              forgot(email, method)

ResetPassword ==
    \E token \in {ResetToken(ADMIN_EMAIL), ResetToken(EMAIL_A), BadToken},
       password \in {NEW_PASSWORD, <<"a","b","c">>} : reset_password(token, password)

FrameEdits ==
    \/ \E form \in FrameForms : profile(form)
    \/ \E a \in StudentIds, form \in FrameForms : admin_students_edit(a, form)

FrameChangePassword ==
    change_password(PasswordForm(ADMIN_PASSWORD, NEW_PASSWORD, NEW_PASSWORD))

FrameRole == \E a \in DOMAIN db : admin_update_role(a, <<"m","a","n","a","g","e","r">>)

FrameImport == \E sheet \in FrameSheets : students_import_open("admin_students_import", sheet)

NextFrame ==
    \/ FrameLogin \/ SignOut \/ RegisterOne
    \/ Forgot \/ ResetPassword \/ FrameChangePassword \/ FrameRole \/ FrameEdits
    \/ FrameImport \/ students_import_row \/ students_import_commit

SpecFrame == Init /\ [][NextFrame]_vars

\* the lockout columns of account a differ after the step
LockoutFieldsChanged(a) ==
    \/ db'[a].failed_attempts # db[a].failed_attempts
    \/ db'[a].last_failed_at # db[a].last_failed_at
    \/ db'[a].lock_until # db[a].lock_until

\* C29: the lockout columns of an account change only in a login attempt that
\* found that account: a login changes them for no other account and for none
\* when its identifier matches nobody, and registration, profile edit, password
\* change, forgot and reset, role change, admin edit and import leave them as
\* they are, so that a reset password does not unlock the account
C29_LockoutTouchedOnlyByItsLogin ==
    /\ [][\A a \in DOMAIN db \cap DOMAIN db' :
            LockoutFieldsChanged(a) =>
                /\ resp'.handler = "login"
                /\ resp'.user = a
                /\ resp'.status \in {"wrong_password", "ok"}
                /\ \A b \in (DOMAIN db \cap DOMAIN db') \ {a} : ~LockoutFieldsChanged(b)]_vars
    /\ [][(resp'.handler = "login" /\ resp'.status = "no_user") => db' = db]_vars

\* the password of a locked account was just reset, with another account on file
C29_Witness ==
    /\ resp.handler = "reset_password" /\ resp.status = "saved"
    /\ resp.user \in DOMAIN db
    /\ db[resp.user].lock_until # NoTime /\ db[resp.user].lock_until > now
    /\ db[resp.user].mat_khau = generate_password_hash(NEW_PASSWORD)
    /\ Cardinality(DOMAIN db) = 2

\* C24: no create, edit or import request ends in an unhandled exception: one
\* that is turned down for a missing or malformed value or for a collision on
\* an identifier or an email ends with a message and leaves the accounts as
\* they were
C24_ValidationErrorsAreReported ==
    [][/\ resp'.status # "error_500"
       /\ resp'.status \in {"form_invalid", "missing_columns", "import_failed"} => db' = db]_vars

====
